---------------------------- MODULE Spec2Model ----------------------------
(***************************************************************************)
(* Model of the recipe-extraction core of jcaseyadams1/recipeapp:          *)
(*   - Validator / RecipeValidator / Formatter   (src/recipeapp/js/utils.js)*)
(*   - RecipeExtractor, current variant          (src/js/ui.js)            *)
(*   - RecipeExtractor, older variant            (src/unnamed/part_001)    *)
(*   - OCRProcessor.parseIngredientLine          (src/recipeapp/js/ocr.js) *)
(*                                                                         *)
(* JavaScript strings are TLA+ strings (Len, SubSeq and \o act on them).   *)
(* JavaScript values whose type matters are tagged records, see Str, Num.  *)
(* Each regular expression of the source is an operator that computes the  *)
(* match the JavaScript regex engine finds (leftmost, greedy/lazy order).  *)
(***************************************************************************)
EXTENDS Integers, Sequences, FiniteSets, TLC

VARIABLES
    fn,     \* the entry point under execution
    arg,    \* its argument(s)
    pc,     \* position of the call: "start", then "done" ("once" and "twice"
            \* for the decoder applied again, "extracted" inside extractRecipe)
    html,   \* the page fetchWebpage returned (its JSON-LD blocks, its markup);
            \* for the decoder the text first handed to it
    ret,    \* the value the last step returned (or the error it threw)
    net,    \* the requests issued to the network so far, in order
    ocr,    \* what a call of an OCRProcessor entry point holds across its
            \* awaits (the page it is at, the text it has put together)
    localStorage,   \* the browser's localStorage: the item
            \* CONFIG.STORAGE_KEYS.SAVED_RECIPES, as JSON.parse reads it
    db      \* the recipes table behind api/recipes.php (rows), and whether
            \* its requests succeed (up)

vars == <<fn, arg, pc, html, ret, net, ocr, localStorage, db>>

-----------------------------------------------------------------------------
(* JavaScript values *)

Undefined == [t |-> "undefined"]
Null == [t |-> "null"]
NaN == [t |-> "NaN"]
Str(s) == [t |-> "string", v |-> s]
Num(n) == [t |-> "number", v |-> n]
Arr(a) == [t |-> "array", v |-> a]
Obj(o) == [t |-> "object", v |-> o]

IsStr(x) == x.t = "string"
IsNum(x) == x.t = "number"
IsArr(x) == x.t = "array"

\* JavaScript truthiness of a tagged value.
Truthy(x) ==
    CASE x.t = "undefined" -> FALSE
      [] x.t = "null" -> FALSE
      [] x.t = "NaN" -> FALSE
      [] x.t = "string" -> Len(x.v) > 0
      [] x.t = "number" -> x.v # 0
      [] OTHER -> TRUE

-----------------------------------------------------------------------------
(* Characters and strings *)

DigitChars == "0123456789"
UpperChars == "ABCDEFGHIJKLMNOPQRSTUVWXYZ"
LowerChars == "abcdefghijklmnopqrstuvwxyz"

Char(s, i) == SubSeq(s, i, i)

RECURSIVE FirstAt(_, _, _, _)
\* least index in lo..hi at which sub occurs in s, 0 if none (by bisection,
\* so that long strings do not nest deeply)
FirstAt(s, sub, lo, hi) ==
    IF lo > hi THEN 0
    ELSE IF lo = hi
         THEN (IF SubSeq(s, lo, lo + Len(sub) - 1) = sub THEN lo ELSE 0)
         ELSE LET mid == (lo + hi) \div 2
                  left == FirstAt(s, sub, lo, mid)
              IN IF left > 0 THEN left ELSE FirstAt(s, sub, mid + 1, hi)

\* index of character c in string s at or after i, 0 if none
PosIn(s, c, i) == FirstAt(s, c, i, Len(s))

DigitSet == {Char(DigitChars, i) : i \in 1..Len(DigitChars)}
UpperSet == {Char(UpperChars, i) : i \in 1..Len(UpperChars)}
LowerSet == {Char(LowerChars, i) : i \in 1..Len(LowerChars)}

IsDigit(c) == c \in DigitSet
IsUpper(c) == c \in UpperSet
IsLower(c) == c \in LowerSet
IsAlpha(c) == IsUpper(c) \/ IsLower(c)
IsWordChar(c) == IsAlpha(c) \/ IsDigit(c) \/ c = "_"
\* \s of a JavaScript regex, and the characters trim() removes: space, line
\* feed, carriage return and U+00A0 (held by "\f"); the texts of the model
\* hold no tab, "\t" holds the characters outside the repertoire
SpaceSet == {" ", "\n", "\r", "\f"}
IsSpace(c) == c \in SpaceSet

DigitVal(c) == PosIn(DigitChars, c, 1) - 1

LowerChar(c) ==
    IF IsUpper(c) THEN Char(LowerChars, PosIn(UpperChars, c, 1)) ELSE c

RECURSIVE toLowerCase(_)
toLowerCase(s) ==
    IF Len(s) <= 1 THEN LowerChar(s)
    ELSE LET mid == Len(s) \div 2
         IN toLowerCase(SubSeq(s, 1, mid)) \o toLowerCase(SubSeq(s, mid + 1, Len(s)))

\* s has sub at index i
HasAt(s, i, sub) ==
    /\ i >= 1
    /\ i + Len(sub) - 1 <= Len(s)
    /\ SubSeq(s, i, i + Len(sub) - 1) = sub

\* first index >= i at which sub occurs in s, 0 if none
indexOf(s, sub, i) == FirstAt(s, sub, i, Len(s) - Len(sub) + 1)

includes(s, sub) == indexOf(s, sub, 1) > 0

RECURSIVE SkipSpaces(_, _)
\* first index >= i of s that holds no whitespace (Len(s)+1 if none)
SkipSpaces(s, i) ==
    IF i <= Len(s) /\ IsSpace(Char(s, i)) THEN SkipSpaces(s, i + 1) ELSE i

RECURSIVE SkipSpacesBack(_, _)
\* last index <= j of s that holds no whitespace (0 if none)
SkipSpacesBack(s, j) ==
    IF j >= 1 /\ IsSpace(Char(s, j)) THEN SkipSpacesBack(s, j - 1) ELSE j

\* String.prototype.trim
trim(s) == SubSeq(s, SkipSpaces(s, 1), SkipSpacesBack(s, Len(s)))

RECURSIVE replaceAll(_, _, _)
\* s.replace(new RegExp(sub, 'g'), rep) for a pattern without metacharacters
replaceAll(s, sub, rep) ==
    LET at == indexOf(s, sub, 1)
    IN IF at = 0 THEN s
       ELSE SubSeq(s, 1, at - 1) \o rep
            \o replaceAll(SubSeq(s, at + Len(sub), Len(s)), sub, rep)

RECURSIVE Repeat(_, _)
Repeat(s, n) ==
    IF n = 0 THEN ""
    ELSE IF n % 2 = 0 THEN LET h == Repeat(s, n \div 2) IN h \o h
    ELSE s \o Repeat(s, n - 1)

RECURSIVE DigitsEnd(_, _)
\* last index of the run of digits of s that starts at i (i-1 if none)
DigitsEnd(s, i) ==
    IF i <= Len(s) /\ IsDigit(Char(s, i)) THEN DigitsEnd(s, i + 1) ELSE i - 1

RECURSIVE DecimalValue(_)
\* the number a non-empty string of decimal digits denotes
DecimalValue(d) ==
    IF Len(d) = 1 THEN DigitVal(d)
    ELSE 10 * DecimalValue(SubSeq(d, 1, Len(d) - 1)) + DigitVal(Char(d, Len(d)))

\* parseInt(x): the leading integer of String(x), NaN if there is none
\* the digits of s from index j on, negated if neg
ParseDigits(s, neg, j) ==
    IF DigitsEnd(s, j) < j THEN NaN
    ELSE Num((IF neg THEN -1 ELSE 1) * DecimalValue(SubSeq(s, j, DigitsEnd(s, j))))

\* parseInt of the string s whose first character that is no white space is
\* at index i
ParseIntAt(s, i) == ParseDigits(s, HasAt(s, i, "-"),
                                IF HasAt(s, i, "-") \/ HasAt(s, i, "+") THEN i + 1 ELSE i)

parseInt(x) ==
    IF IsNum(x) THEN x
    ELSE IF ~IsStr(x) THEN NaN
    ELSE ParseIntAt(x.v, SkipSpaces(x.v, 1))

-----------------------------------------------------------------------------
(* Entity decoder (RecipeExtractor.decodeHtmlEntities) *)

\* The printable ASCII characters, from code 32 (space) to code 126 (~); the
\* grave accent (code 96) is outside the repertoire and held by a tab.
AsciiChars ==
    " !\"#$%&'()*+,-./0123456789:;<=>?@ABCDEFGHIJKLMNOPQRSTUVWXYZ[\\]^_\tabcdefghijklmnopqrstuvwxyz{|}~"

FirstAsciiCode == 32

\* stands for U+00A0 (no-break space), which is whitespace to \s and trim()
NBSP == "\f"
NbspCode == 160

\* stands for any character outside the modelled repertoire
OtherChar == "\t"

\* String.fromCharCode(n)
fromCharCode(n) ==
    IF n >= FirstAsciiCode /\ n < FirstAsciiCode + Len(AsciiChars)
    THEN Char(AsciiChars, n - FirstAsciiCode + 1)
    ELSE IF n = NbspCode THEN NBSP
    ELSE OtherChar

HexChars == "0123456789abcdef"
HexSet == {Char(HexChars, i) : i \in 1..Len(HexChars)} \cup {"A", "B", "C", "D", "E", "F"}

HexVal(c) == FirstAt(HexChars, LowerChar(c), 1, Len(HexChars)) - 1

RECURSIVE HexValue(_)
\* the number a non-empty string of hex digits denotes
HexValue(d) ==
    IF Len(d) = 1 THEN HexVal(d)
    ELSE Len(HexChars) * HexValue(SubSeq(d, 1, Len(d) - 1)) + HexVal(Char(d, Len(d)))

\* the least element of a set of indices that is not empty
Least(indices) == CHOOSE i \in indices : \A j \in indices : i <= j

RECURSIVE RunEnd(_, _, _)
\* last index of the run of characters of class C that starts at i (i-1 if none)
RunEnd(s, i, C) ==
    IF i <= Len(s) /\ Char(s, i) \in C THEN RunEnd(s, i + 1, C) ELSE i - 1

\* the named character references the browser knows, of those the source
\* mentions: name, replacement, and whether the name is also recognised
\* without its semicolon
NamedReferences ==
    << [name |-> "amp", char |-> "&", legacy |-> TRUE],
       [name |-> "lt", char |-> "<", legacy |-> TRUE],
       [name |-> "gt", char |-> ">", legacy |-> TRUE],
       [name |-> "quot", char |-> "\"", legacy |-> TRUE],
       [name |-> "nbsp", char |-> NBSP, legacy |-> TRUE],
       [name |-> "apos", char |-> "'", legacy |-> FALSE] >>

\* the reference that ends at index e and stands for char; a ";" after it
\* belongs to it
ReferenceTo(s, i, e, char) ==
    [len |-> e + (IF HasAt(s, e + 1, ";") THEN 1 ELSE 0) - i + 1, char |-> char]

\* the reference at the "&" at index i when the digits after "&#" end at
\* decEnd, the hexadecimal digits after "&#x" end at hexEnd, and named holds
\* the named references that match there
ReferenceOf(s, i, decEnd, hexEnd, named) ==
    IF HasAt(s, i + 1, "#") /\ decEnd >= i + 2
    THEN ReferenceTo(s, i, decEnd, fromCharCode(DecimalValue(SubSeq(s, i + 2, decEnd))))
    ELSE IF (HasAt(s, i + 1, "#x") \/ HasAt(s, i + 1, "#X")) /\ hexEnd >= i + 3
    THEN ReferenceTo(s, i, hexEnd, fromCharCode(HexValue(SubSeq(s, i + 3, hexEnd))))
    ELSE IF named # {}
    THEN LET k == CHOOSE k \in named : TRUE
         IN ReferenceTo(s, i, i + Len(NamedReferences[k].name), NamedReferences[k].char)
    ELSE [len |-> 0, char |-> ""]

\* The character reference the HTML tokenizer finds at the "&" at index i:
\* [len |-> characters consumed, char |-> replacement], len = 0 if there is none.
ReferenceAt(s, i) ==
    ReferenceOf(s, i, RunEnd(s, i + 2, DigitSet), RunEnd(s, i + 3, HexSet),
                { k \in 1..Len(NamedReferences) :
                    /\ HasAt(s, i + 1, NamedReferences[k].name)
                    /\ \/ HasAt(s, i + 1 + Len(NamedReferences[k].name), ";")
                       \/ NamedReferences[k].legacy })

RECURSIVE TextareaValue(_, _), TextareaFrom(_, _, _, _)
\* textarea.innerHTML = text; textarea.value: one left-to-right pass of the
\* browser's character-reference decoding over the text from index i on
TextareaValue(s, i) == TextareaFrom(s, i, PosIn(s, "&", i), ReferenceAt(s, PosIn(s, "&", i)))

\* the pass from index i on when the next "&" is at amp (0 if there is none)
\* and ref is the character reference found there
TextareaFrom(s, i, amp, ref) ==
    IF amp = 0 THEN SubSeq(s, i, Len(s))
    ELSE IF ref.len = 0
         THEN SubSeq(s, i, amp) \o TextareaValue(s, amp + 1)
         ELSE SubSeq(s, i, amp - 1) \o ref.char \o TextareaValue(s, amp + ref.len)

\* Object.entries(entityMap), in insertion order
entityMap ==
    << <<"&amp;#32;", " ">>,
       <<"&#32;", " ">>,
       <<"&amp;#39;", "'">>,
       <<"&#39;", "'">>,
       <<"&amp;#x27;", "'">>,
       <<"&#x27;", "'">>,
       <<"&amp;", "&">>,
       <<"&lt;", "<">>,
       <<"&gt;", ">">>,
       <<"&quot;", "\"">>,
       <<"&nbsp;", " ">>,
       <<"&apos;", "'">> >>

RECURSIVE ReplaceEntities(_, _)
\* for (const [entity, replacement] of Object.entries(entityMap)) ..., from
\* entry k on (no entry changes an empty text)
ReplaceEntities(s, k) ==
    IF k > Len(entityMap) \/ s = "" THEN s
    ELSE ReplaceEntities(replaceAll(s, entityMap[k][1], entityMap[k][2]), k + 1)

RECURSIVE ReplaceDecimal(_, _)
\* .replace(/&#(\d+);/g, ...) from index i on when the next "&#" is at index
\* at (0 if there is none) and the digits after it end at index e
DecimalFrom(s, i, at, e) ==
    IF at = 0 THEN SubSeq(s, i, Len(s))
    ELSE IF e >= at + 2 /\ HasAt(s, e + 1, ";")
         THEN SubSeq(s, i, at - 1)
              \o fromCharCode(DecimalValue(SubSeq(s, at + 2, e)))
              \o ReplaceDecimal(s, e + 2)
         ELSE SubSeq(s, i, at) \o ReplaceDecimal(s, at + 1)

\* mutant: the numeric pattern without its leading "&" (/#(\d+);/g)
ReplaceDecimal_NoAmpersand(s, i) ==
    LET at == indexOf(s, "#", i)
        e == RunEnd(s, at + 1, DigitSet)
    IN IF at = 0 THEN SubSeq(s, i, Len(s))
       ELSE IF e >= at + 1 /\ HasAt(s, e + 1, ";")
            THEN SubSeq(s, i, at - 1)
                 \o fromCharCode(DecimalValue(SubSeq(s, at + 1, e)))
                 \o ReplaceDecimal(s, e + 2)
            ELSE SubSeq(s, i, at) \o ReplaceDecimal(s, at + 1)

\* .replace(/&#(\d+);/g, (match, code) => String.fromCharCode(parseInt(code, 10)))
ReplaceDecimal(s, i) ==
    DecimalFrom(s, i, indexOf(s, "&#", i), RunEnd(s, indexOf(s, "&#", i) + 2, DigitSet))

RECURSIVE ReplaceHex(_, _)
\* .replace(/&#x([0-9a-fA-F]+);/g, ...) from index i on when the next "&#x"
\* is at index at (0 if there is none) and the digits after it end at index e
HexFrom(s, i, at, e) ==
    IF at = 0 THEN SubSeq(s, i, Len(s))
    ELSE IF e >= at + 3 /\ HasAt(s, e + 1, ";")
         THEN SubSeq(s, i, at - 1)
              \o fromCharCode(HexValue(SubSeq(s, at + 3, e)))
              \o ReplaceHex(s, e + 2)
         ELSE SubSeq(s, i, at) \o ReplaceHex(s, at + 1)

\* .replace(/&#x([0-9a-fA-F]+);/g, (match, code) => String.fromCharCode(parseInt(code, 16)))
ReplaceHex(s, i) ==
    HexFrom(s, i, indexOf(s, "&#x", i), RunEnd(s, indexOf(s, "&#x", i) + 3, HexSet))

\* RecipeExtractor.decodeHtmlEntities on a string (both variants are the same)
decodeHtmlEntities(text) ==
    IF text = "" THEN text
    ELSE ReplaceHex(ReplaceDecimal(ReplaceEntities(TextareaValue(text, 1), 1), 1), 1)

-----------------------------------------------------------------------------
(* Validator (utils.js) *)

MAX_URL_LENGTH == 2000
MIN_RECIPE_TITLE_LENGTH == 1
MAX_RECIPE_TITLE_LENGTH == 200
MIN_INGREDIENTS == 1
MIN_STEPS == 1
MIN_SERVINGS == 1
MAX_SERVINGS == 100
MIN_TIME == 0
MAX_TIME == 1440

\* new URL(s): the protocol, hostname and serialised href of an absolute URL, or
\* Null when the platform parser throws (no scheme, or a special scheme
\* without a host).
ParseURL(s) ==
    LET colon == PosIn(s, ":", 1)
        scheme == toLowerCase(SubSeq(s, 1, colon - 1))
        schemeOk == /\ colon > 1
                    /\ IsAlpha(Char(s, 1))
                    /\ \A k \in 1..(colon - 1) :
                          IsWordChar(Char(s, k)) \/ Char(s, k) \in {"+", "-", "."}
        special == scheme \in {"http", "https", "ftp"}
        rest == SubSeq(s, colon + 1, Len(s))
        hostAt == IF HasAt(rest, 1, "//") THEN 3 ELSE 1
        hostOk == hostAt <= Len(rest) /\ Char(rest, hostAt) \notin {"/", "?", "#", " "}
        slash == PosIn(rest, "/", hostAt)
        hostEnd == RunEnd(rest, hostAt, {Char(rest, k) : k \in 1..Len(rest)} \ {"/", "?", "#", ":"})
    IN IF ~schemeOk THEN Null
       ELSE IF ~special
       THEN [protocol |-> scheme \o ":", hostname |-> "", href |-> scheme \o ":" \o rest]
       ELSE IF ~hostOk THEN Null
       ELSE [protocol |-> scheme \o ":",
             hostname |-> toLowerCase(SubSeq(rest, hostAt, hostEnd)),
             href |-> scheme \o "://" \o SubSeq(rest, hostAt, Len(rest))
                      \o (IF slash = 0 THEN "/" ELSE "")]

\* Validator.validateUrl from the point where url is known to be a string:
\* trimmed is url.trim(), urlObj is new URL(trimmed) or Null if that throws
validateTrimmedUrl(trimmed, urlObj) ==
    IF Len(trimmed) = 0 \/ Len(trimmed) > MAX_URL_LENGTH THEN Null
    ELSE IF urlObj = Null THEN Null
    ELSE IF urlObj.protocol \notin {"http:", "https:"} THEN Null
    ELSE Str(urlObj.href)

validateUrl(url) ==
    IF ~Truthy(url) \/ ~IsStr(url) THEN Null
    ELSE validateTrimmedUrl(trim(url.v), ParseURL(trim(url.v)))

RECURSIVE RemoveScriptsFrom(_, _, _)
\* .replace(/<script\b[^<]*(?:(?!<\/script>)<[^<]*)*<\/script>/gi, ''):
\* "<script" at a word boundary up to the first "</script>" after it
RemoveScriptsFrom(s, low, i) ==
    LET open == indexOf(low, "<script", i)
        close == indexOf(low, "</script>", open + 7)
    IN IF open = 0 THEN SubSeq(s, i, Len(s))
       ELSE IF ~IsWordChar(Char(s, open + 7)) /\ close > 0
            THEN SubSeq(s, i, open - 1) \o RemoveScriptsFrom(s, low, close + 9)
            ELSE SubSeq(s, i, open) \o RemoveScriptsFrom(s, low, open + 1)

RECURSIVE RemoveTagsFrom(_, _, _)
\* .replace(/<[^>]*>/g, rep): every "<" up to the first ">" after it
RemoveTagsFrom(s, i, rep) ==
    LET open == PosIn(s, "<", i)
        close == PosIn(s, ">", open + 1)
    IN IF open = 0 \/ close = 0 THEN SubSeq(s, i, Len(s))
       ELSE SubSeq(s, i, open - 1) \o rep \o RemoveTagsFrom(s, close + 1, rep)

\* mutant: the apostrophe is not in the map
escapeMap_NoApostrophe(c) ==
    CASE c = "<" -> "&lt;"
      [] c = ">" -> "&gt;"
      [] c = "&" -> "&amp;"
      [] c = "\"" -> "&quot;"
      [] OTHER -> c

escapeMap(c) ==
    CASE c = "<" -> "&lt;"
      [] c = ">" -> "&gt;"
      [] c = "&" -> "&amp;"
      [] c = "\"" -> "&quot;"
      [] c = "'" -> "&#x27;"
      [] OTHER -> c

RECURSIVE EscapeSpecial(_)
\* .replace(/[<>&"']/g, match => escapeMap[match])
EscapeSpecial(s) ==
    IF Len(s) <= 1 THEN escapeMap(s)
    ELSE LET mid == Len(s) \div 2
         IN EscapeSpecial(SubSeq(s, 1, mid)) \o EscapeSpecial(SubSeq(s, mid + 1, Len(s)))

\* Validator.sanitizeText; text is a tagged value, the result a string
sanitizeText(text) ==
    IF ~Truthy(text) \/ ~IsStr(text) THEN ""
    ELSE trim(EscapeSpecial(RemoveTagsFrom(
                 RemoveScriptsFrom(text.v, toLowerCase(text.v), 1), 1, "")))

\* Validator.validateTitle from the point where the title is sanitized
validateSanitizedTitle(sanitized) ==
    IF \/ Len(sanitized) < MIN_RECIPE_TITLE_LENGTH
       \/ Len(sanitized) > MAX_RECIPE_TITLE_LENGTH
    THEN Null
    ELSE Str(sanitized)

validateTitle(title) ==
    IF ~Truthy(title) \/ ~IsStr(title) THEN Null
    ELSE validateSanitizedTitle(sanitizeText(title))

\* mutant: the upper bound on servings is not checked
validateServings_NoUpperBound(servings) ==
    LET num == parseInt(servings)
    IN IF num = NaN THEN Null
       ELSE IF num.v < MIN_SERVINGS THEN Null
       ELSE num

\* Validator.validateServings from the point where num is parseInt(servings)
validateParsedServings(num) ==
    IF num = NaN THEN Null
    ELSE IF num.v < MIN_SERVINGS \/ num.v > MAX_SERVINGS THEN Null
    ELSE num

validateServings(servings) == validateParsedServings(parseInt(servings))

\* Validator.validateTime from the point where num is parseInt(time)
validateParsedTime(num) ==
    IF num = NaN THEN Null
    ELSE IF num.v < MIN_TIME \/ num.v > MAX_TIME THEN Null
    ELSE num

validateTime(time) == validateParsedTime(parseInt(time))

\* x || '' for an ingredient field
OrEmpty(x) == IF Truthy(x) THEN x ELSE Str("")

NonEmptyItem(ingredient) == Len(ingredient.item) > 0

\* RecipeValidator.validateIngredients: ingredients is a sequence of
\* {amount, unit, item} objects of tagged values
validateIngredients(ingredients) ==
    SelectSeq([i \in 1..Len(ingredients) |->
                  [amount |-> sanitizeText(OrEmpty(ingredients[i].amount)),
                   unit |-> sanitizeText(OrEmpty(ingredients[i].unit)),
                   item |-> sanitizeText(OrEmpty(ingredients[i].item))]],
              NonEmptyItem)

NonEmptyString(step) == Len(step) > 0

\* RecipeValidator.validateSteps: steps is a sequence of tagged values
validateSteps(steps) ==
    SelectSeq([i \in 1..Len(steps) |-> sanitizeText(steps[i])], NonEmptyString)

\* the guard of the ingredients rule (utils.js line 169)
IngredientsRuleFails(recipe) ==
    ~IsArr(recipe.ingredients) \/ Len(recipe.ingredients.v) < MIN_INGREDIENTS

\* the guard of the steps rule (utils.js line 176)
StepsRuleFails(recipe) ==
    ~IsArr(recipe.steps) \/ Len(recipe.steps.v) < MIN_STEPS

\* the seven rule checks of validateRecipe, in source order: whether the
\* rule failed and the message pushed onto errors
RuleChecks(recipe) ==
    << [failed |-> ~Truthy(validateUrl(recipe.url)),
        msg |-> "Invalid recipe URL"],
       [failed |-> ~Truthy(validateTitle(recipe.title)),
        msg |-> "Invalid recipe title"],
       [failed |-> validateServings(recipe.servings) = Null,
        msg |-> "Invalid serving count"],
       [failed |-> validateTime(recipe.prepTime) = Null,
        msg |-> "Invalid preparation time"],
       [failed |-> validateTime(recipe.cookTime) = Null,
        msg |-> "Invalid cooking time"],
       [failed |-> IngredientsRuleFails(recipe),
        msg |-> "Recipe must have at least one ingredient"],
       [failed |-> StepsRuleFails(recipe),
        msg |-> "Recipe must have at least one step"] >>

RECURSIVE PushFailed(_, _)
\* the messages of the failed checks from index i on, in order
PushFailed(checks, i) ==
    IF i > Len(checks) THEN <<>>
    ELSE (IF checks[i].failed THEN <<checks[i].msg>> ELSE <<>>)
         \o PushFailed(checks, i + 1)

\* mutant: validation stops at the first failing rule
ruleErrors_FirstOnly(recipe) ==
    LET all == PushFailed(RuleChecks(recipe), 1)
    IN IF Len(all) = 0 THEN <<>> ELSE <<all[1]>>

\* the errors array validateRecipe has built when it returns
ruleErrors(recipe) == PushFailed(RuleChecks(recipe), 1)

\* the validatedRecipe object validateRecipe has built when no rule failed
validatedRecipe(recipe) ==
    [url |-> validateUrl(recipe.url).v,
     title |-> validateTitle(recipe.title).v,
     servings |-> validateServings(recipe.servings).v,
     prepTime |-> validateTime(recipe.prepTime).v,
     cookTime |-> validateTime(recipe.cookTime).v,
     ingredients |-> validateIngredients(recipe.ingredients.v),
     steps |-> validateSteps(recipe.steps.v),
     imageUrl |-> IF Truthy(recipe.imageUrl)
                  THEN validateUrl(recipe.imageUrl) ELSE Undefined]

\* the object validateRecipe returns when it has built errors
ValidationResult(recipe, errors) ==
    [isValid |-> Len(errors) = 0,
     errors |-> errors,
     validatedRecipe |-> IF Len(errors) = 0 THEN validatedRecipe(recipe) ELSE Null]

\* RecipeValidator.validateRecipe
validateRecipe(recipe) == ValidationResult(recipe, ruleErrors(recipe))

-----------------------------------------------------------------------------
(* Candidate recipes handed to validateRecipe *)

\* how many fields of a candidate may differ from the minimum valid candidate
MaxDeviations == 2

Ing(a, u, i) == [amount |-> Str(a), unit |-> Str(u), item |-> Str(i)]

RecipeFields ==
    {"url", "title", "servings", "prepTime", "cookTime", "ingredients",
     "steps", "imageUrl"}

\* the minimum candidate: 1 ingredient, 1 step, title of length 1, servings 1
MinimumCandidate ==
    [url |-> Str("https://example.com/pancakes"),
     title |-> Str("P"),
     servings |-> Num(1),
     prepTime |-> Num(0),
     cookTime |-> Num(0),
     ingredients |-> Arr(<<Ing("1", "cup", "flour")>>),
     steps |-> Arr(<<Str("Mix.")>>),
     imageUrl |-> Null]

LongUrl(n) == "http://a/" \o Repeat("a", n - 9)

\* for each field, the values a candidate may hold instead; the first one
\* breaks the field's rule
FieldValues ==
    [url |-> << Undefined,
                Str("  http://example.com  "),
                Str("ftp://example.com/r"),
                Str("example.com/pancakes"),
                Str(LongUrl(MAX_URL_LENGTH)),
                Str(LongUrl(MAX_URL_LENGTH + 1)) >>,
     title |-> << Str("<b></b>"),
                  Undefined,
                  Str(Repeat("a", MAX_RECIPE_TITLE_LENGTH)),
                  Str(Repeat("a", MAX_RECIPE_TITLE_LENGTH + 1)),
                  Str("Tom & Jerry's <i>Pie</i>") >>,
     servings |-> << Num(0), Num(MAX_SERVINGS), Num(MAX_SERVINGS + 1),
                     Str("4 servings"), Str("Serves 4"), Undefined >>,
     prepTime |-> << Num(-1), Num(MAX_TIME), Num(MAX_TIME + 1),
                     Str("15"), Undefined >>,
     cookTime |-> << Num(MAX_TIME + 1), Num(30), Str("30 min"), Str("soon") >>,
     ingredients |-> << Arr(<<>>),
                        Undefined,
                        Arr(<<Ing("", "", "")>>),
                        Arr(<<Ing("", "", "<br>"), Ing("2", "", "  ")>>),
                        Arr(<<Ing("", "", "<b></b>"), Ing("2", "", "eggs")>>),
                        Arr(<<[amount |-> Undefined, unit |-> Undefined,
                               item |-> Str("salt")]>>) >>,
     steps |-> << Arr(<<>>),
                  Undefined,
                  Arr(<<Str("   ")>>),
                  Arr(<<Str("<p></p>"), Str("Bake.")>>) >>,
     imageUrl |-> << Str("/relative.jpg"), Str("https://example.com/p.jpg") >>]

FieldChoices ==
    UNION { { <<f, FieldValues[f][k]>> : k \in 1..Len(FieldValues[f]) } :
            f \in RecipeFields }

RECURSIVE Deviating(_)
\* the candidates that differ from MinimumCandidate in at most k fields
Deviating(k) ==
    IF k = 0 THEN {MinimumCandidate}
    ELSE LET P == Deviating(k - 1)
         IN P \cup { [c EXCEPT ![fv[1]] = fv[2]] : c \in P, fv \in FieldChoices }

\* the candidates in which every field either is valid or breaks its rule
Corners ==
    { [f \in RecipeFields |->
          IF f \in D THEN FieldValues[f][1] ELSE MinimumCandidate[f]] :
      D \in SUBSET RecipeFields }

Candidates == Deviating(MaxDeviations) \cup Corners

NoHtml == ""

InitValidate ==
    /\ fn = "validateRecipe"
    /\ arg \in Candidates
    /\ pc = "start"
    /\ html = NoHtml
    /\ ret = Undefined
    /\ net = <<>>
    /\ ocr = Undefined
    /\ localStorage = Undefined
    /\ db = Undefined

\* one call of RecipeValidator.validateRecipe
ValidateRecipe ==
    /\ fn = "validateRecipe"
    /\ pc = "start"
    /\ ret' = validateRecipe(arg)
    /\ pc' = "done"
    /\ UNCHANGED <<fn, arg, html, net, ocr, localStorage, db>>

NextValidate == ValidateRecipe

SpecValidate == InitValidate /\ [][NextValidate]_vars

Validated == fn = "validateRecipe" /\ pc = "done"

-----------------------------------------------------------------------------
(* Claims about the validator, checked under SpecValidate *)

\* C1 (as claimed): whenever validateRecipe returns isValid = true, the
\* validatedRecipe has at least one ingredient with a non-empty sanitized item
\* and at least one non-empty sanitized step; a candidate whose ingredients
\* (or steps) all sanitize to the empty string is rejected.
C1_ValidatedHasIngredientAndStep ==
    (Validated /\ ret.isValid) =>
        /\ Len(ret.validatedRecipe.ingredients) >= 1
        /\ \A i \in 1..Len(ret.validatedRecipe.ingredients) :
              Len(ret.validatedRecipe.ingredients[i].item) > 0
        /\ Len(ret.validatedRecipe.steps) >= 1
        /\ \A i \in 1..Len(ret.validatedRecipe.steps) :
              Len(ret.validatedRecipe.steps[i]) > 0

\* The rules of the validator as the claims state them, on the candidate.
WellFormedHttpUrl(s) ==
    LET low == toLowerCase(SubSeq(s, 1, Len("https://")))
        hostAt == IF HasAt(low, 1, "https://") THEN Len("https://") + 1
                  ELSE Len("http://") + 1
    IN /\ HasAt(low, 1, "http://") \/ HasAt(low, 1, "https://")
       /\ hostAt <= Len(s)
       /\ Char(s, hostAt) \notin {"/", "?", "#", " "}

UrlRuleHolds(c) ==
    /\ IsStr(c.url)
    /\ Len(trim(c.url.v)) <= MAX_URL_LENGTH
    /\ WellFormedHttpUrl(trim(c.url.v))

TitleRuleHolds(c) ==
    /\ IsStr(c.title)
    /\ LET n == Len(sanitizeText(c.title))
       IN n >= MIN_RECIPE_TITLE_LENGTH /\ n <= MAX_RECIPE_TITLE_LENGTH

\* x is a number, or a string with a leading integer, within lo..hi
ParsesInto(x, lo, hi) == parseInt(x) # NaN /\ parseInt(x).v \in lo..hi

\* x is an integer within lo..hi
IsIntegerIn(x, lo, hi) == IsNum(x) /\ x.v \in lo..hi

HasAnIngredient(c) == IsArr(c.ingredients) /\ Len(c.ingredients.v) >= 1

HasAStep(c) == IsArr(c.steps) /\ Len(c.steps.v) >= 1

RuleHolds(c) ==
    << UrlRuleHolds(c),
       TitleRuleHolds(c),
       ParsesInto(c.servings, MIN_SERVINGS, MAX_SERVINGS),
       ParsesInto(c.prepTime, MIN_TIME, MAX_TIME),
       ParsesInto(c.cookTime, MIN_TIME, MAX_TIME),
       HasAnIngredient(c),
       HasAStep(c) >>

RuleMessage ==
    << "Invalid recipe URL",
       "Invalid recipe title",
       "Invalid serving count",
       "Invalid preparation time",
       "Invalid cooking time",
       "Recipe must have at least one ingredient",
       "Recipe must have at least one step" >>

\* C7: validateRecipe checks every rule independently: errors holds exactly
\* one entry for each failing rule (url, title, servings, prepTime, cookTime,
\* ingredients, steps) and none for a passing rule; isValid is true exactly
\* when errors is empty, and validatedRecipe is null exactly when errors is
\* non-empty.
C7_ErrorsCollectEveryFailingRule ==
    Validated =>
        /\ LET holds == RuleHolds(arg)
           IN /\ \A k \in 1..Len(RuleMessage) :
                    ~holds[k] <=>
                        \E i \in 1..Len(ret.errors) : ret.errors[i] = RuleMessage[k]
              /\ Len(ret.errors) =
                    Cardinality({k \in 1..Len(RuleMessage) : ~holds[k]})
        /\ ret.isValid <=> ret.errors = <<>>
        /\ ret.validatedRecipe = Null <=> ret.errors # <<>>

\* C7 witness: a call in which every one of the seven rules failed.
C7_Witness ==
    /\ Validated
    /\ Len(ret.errors) = Len(RuleMessage)
    /\ ret.validatedRecipe = Null

-----------------------------------------------------------------------------
(* Entity decoding of bounded texts *)

\* longest text, counted in fragments
MaxPieces == 4

\* fragments of character references and of plain text
Pieces == {"&", "amp;", "lt;", "#", "39;", "x27;", "35;", "a"}

RECURSIVE TextsOf(_)
TextsOf(n) ==
    IF n = 0 THEN {""}
    ELSE LET shorter == TextsOf(n - 1)
         IN shorter \cup {t \o p : t \in shorter, p \in Pieces}

EntityTexts == TextsOf(MaxPieces)

InitDecode ==
    /\ fn = "decodeHtmlEntities"
    /\ arg \in EntityTexts
    /\ html = arg
    /\ pc = "start"
    /\ ret = Undefined
    /\ net = <<>>
    /\ ocr = Undefined
    /\ localStorage = Undefined
    /\ db = Undefined

\* decodeHtmlEntities(text)
DecodeHtmlEntities ==
    /\ fn = "decodeHtmlEntities"
    /\ pc = "start"
    /\ ret' = decodeHtmlEntities(arg)
    /\ pc' = "once"
    /\ UNCHANGED <<fn, arg, html, net, ocr, localStorage, db>>

\* decodeHtmlEntities applied to its own result
DecodeHtmlEntitiesAgain ==
    /\ fn = "decodeHtmlEntities"
    /\ pc = "once"
    /\ arg' = ret
    /\ ret' = decodeHtmlEntities(ret)
    /\ pc' = "twice"
    /\ UNCHANGED <<fn, html, net, ocr, localStorage, db>>

NextDecode == DecodeHtmlEntities \/ DecodeHtmlEntitiesAgain

SpecDecode == InitDecode /\ [][NextDecode]_vars

\* C8 (as stated): decodeHtmlEntities is idempotent, for every input text the
\* second application returns what the first returned.
C8_DecodeIdempotentOnEveryInput ==
    (fn = "decodeHtmlEntities" /\ pc = "twice") => ret = arg

\* C8 (amended): decodeHtmlEntities returns unchanged every text that holds no
\* ampersand, so a second application changes nothing whenever the first
\* result is such already-decoded plain text.
C8_DecodeFixesPlainText ==
    (fn = "decodeHtmlEntities" /\ pc \in {"once", "twice"} /\ ~includes(arg, "&"))
        => ret = arg

\* a doubly escaped apostrophe was decoded to plain text and decoded again
C8_Witness ==
    /\ fn = "decodeHtmlEntities"
    /\ pc = "twice"
    /\ html = "&amp;#39;"
    /\ arg = "'"
    /\ ret = arg

-----------------------------------------------------------------------------
(* Ingredient lines (parseIngredients, parseIngredientText, parseIngredientLine) *)

\* [a-zA-Z]
AlphaSet == UpperSet \cup LowerSet
\* [\d\/.] (the vulgar-fraction characters are outside the repertoire)
QuantitySet == DigitSet \cup {"/", "."}
\* [\d\/.\-\s]
AmountSet == QuantitySet \cup {"-"} \cup SpaceSet

RunLen(s, i, C) == RunEnd(s, i, C) - i + 1

From(s, i) == SubSeq(s, i, Len(s))

\* (.+)$ matches r: r is not empty and holds no line terminator
MatchesDotPlus(r) == r # "" /\ ~includes(r, "\n") /\ ~includes(r, "\r")

\* p plus the greatest element of ds, 0 if ds is empty
Greatest(p, ds) == IF ds = {} THEN 0 ELSE p + (CHOOSE d \in ds : \A e \in ds : d >= e)

\* \s{dMin,}(.+)$ at index p: where the group starts when the greedy
\* whitespace has given back as little as the match needs (0 if no match)
ItemStart(s, p, dMin) ==
    Greatest(p, {d \in dMin..RunLen(s, p, SpaceSet) : MatchesDotPlus(From(s, p + d))})

\* the groups of the complex pattern when the item starts at index two after
\* a unit of two words, at index one after a unit of one word (0: no match)
ComplexItem(text, g1, g2, u, e1, e2, two, one) ==
    IF two > 0 THEN <<g1, g2, SubSeq(text, u, e2), From(text, two)>>
    ELSE IF one > 0 THEN <<g1, g2, SubSeq(text, u, e1), From(text, one)>>
    ELSE <<>>

\* the complex pattern from its third group on, which starts at index u, when
\* the first two groups are g1 and g2
ComplexUnit(text, g1, g2, u) ==
    LET e1 == RunEnd(text, u, AlphaSet)
        w2 == SkipSpaces(text, e1 + 1)
        e2 == RunEnd(text, w2, AlphaSet)
    IN ComplexItem(text, g1, g2, u, e1, e2,
                   IF e1 >= u /\ w2 > e1 + 1 /\ e2 >= w2 THEN ItemStart(text, e2 + 1, 1) ELSE 0,
                   IF e1 >= u THEN ItemStart(text, e1 + 1, 1) ELSE 0)

\* text.match(/^([\d\/.\-\s]+)?\s*(?:\(([\d\/.]+)[^)]*\))?\s*([a-zA-Z]+(?:\s+[a-zA-Z]+)?)\s+(.+)$/):
\* the four groups ("" for a group that did not take part), <<>> for null.
\* Group 1 takes the whole leading run of its class, a unit cannot start
\* inside it; a "(" after it must open group 2; the unit takes two words when
\* whitespace and an item follow the second, else one.
ComplexPattern(text) ==
    LET p == RunEnd(text, 1, AmountSet) + 1
        q == RunEnd(text, p + 1, QuantitySet)
        close == PosIn(text, ")", q + 1)
        paren == HasAt(text, p, "(") /\ q >= p + 1 /\ close > 0
    IN ComplexUnit(text, SubSeq(text, 1, p - 1),
                   IF paren THEN SubSeq(text, p + 1, q) ELSE "",
                   SkipSpaces(text, IF paren THEN close + 1 ELSE p))

RECURSIVE SumTo(_, _)
\* m[1] + ... + m[n]
SumTo(m, n) == IF n = 0 THEN 0 ELSE SumTo(m, n - 1) + m[n]

\* the groups of a match of text: group k has the length m[at[k]], or runs to
\* the end of the text if at[k] = 0; the parts before it have the lengths
\* m[1] .. m[at[k] - 1], the last group starts after all parts of m
GroupsAt(text, at, m) ==
    LET before(n) == SumTo(m, n)
    IN [k \in 1..Len(at) |->
          IF at[k] = 0 THEN From(text, before(Len(m)) + 1)
          ELSE SubSeq(text, before(at[k] - 1) + 1, before(at[k]))]

\* the groups of the simple pattern when V holds the lengths <<group 1, \s*>>
\* of its matches
SimpleGroups(text, V) ==
    IF V = {} THEN <<>>
    ELSE GroupsAt(text, <<1, 0>>,
                  CHOOSE v \in V : \A w \in V : v[1] > w[1] \/ (v[1] = w[1] /\ v[2] >= w[2]))

\* text.match(/^([\d\/.\-\s]+)?\s*(.+)$/): the two groups, <<>> for null; the
\* first match in backtracking order has the longest group 1, then the
\* longest \s*, that leave (.+) a match
SimplePattern(text) ==
    SimpleGroups(text, {ab \in (0..RunLen(text, 1, AmountSet)) \X (0..Len(text)) :
                          /\ ab[2] <= RunLen(text, ab[1] + 1, SpaceSet)
                          /\ MatchesDotPlus(From(text, ab[1] + ab[2] + 1))})

\* the groups of the quantity pattern when V holds the lengths <<a, b, c, d>>
\* of its matches
QuantityGroups(text, V) ==
    LET B == Len(text) + 1
        weight(v) == ((v[1] * B + v[2]) * B + v[3]) * B + v[4]
    IN IF V = {} THEN <<>>
       ELSE GroupsAt(text, <<1, 3, 0>>, CHOOSE v \in V : \A w \in V : weight(v) >= weight(w))

\* text.match(/^([\d\/.]+)?\s*([a-zA-Z]+)?\s*(.+)$/) with aMin = 0, dMin = 0 and
\* line.match(/^([\d\/.]+)\s*([a-zA-Z]+)?\s+(.+)$/) with aMin = 1, dMin = 1: the
\* three groups, <<>> for null. Each quantifier is greedy, so the first match
\* in backtracking order is the greatest (a, b, c, d), compared left to right.
QuantityLinePattern(text, aMin, dMin) ==
    QuantityGroups(text,
        UNION { UNION { UNION { { <<a, b, c, d>> :
                 d \in {x \in dMin..RunLen(text, a + b + c + 1, SpaceSet) :
                          MatchesDotPlus(From(text, a + b + c + x + 1))} } :
                 c \in 0..RunLen(text, a + b + 1, AlphaSet) } :
                 b \in 0..RunLen(text, a + 1, SpaceSet) } :
                 a \in aMin..RunLen(text, 1, QuantitySet) })

\* a || b on strings
OrElse(a, b) == IF a # "" THEN a ELSE b

\* the callback of ingredients.map in parseIngredients, on a string
\* the ingredient the callback returns for the decoded text when complexMatch
\* and simpleMatch are the results of its two patterns
IngredientOfMatches(text, complexMatch, simpleMatch) ==
    IF complexMatch # <<>>
    THEN Ing(trim(OrElse(complexMatch[1], complexMatch[2])), complexMatch[3],
             OrElse(complexMatch[4], text))
    ELSE IF simpleMatch # <<>>
    THEN Ing(simpleMatch[1], "", OrElse(simpleMatch[2], text))
    ELSE Ing("", "", text)

\* the callback from the point where text is decoded
parseDecodedIngredient(text) ==
    IngredientOfMatches(text, ComplexPattern(text), SimplePattern(text))

parseIngredient(ing) == parseDecodedIngredient(decodeHtmlEntities(trim(ing)))

\* what a call that threw a TypeError leaves behind
Thrown == [t |-> "TypeError"]

\* RecipeExtractor.parseIngredients (both variants are the same): map is not
\* a function of a value that is no array, trim is not a function of an
\* element that is no string
parseIngredients(ingredients) ==
    IF ~IsArr(ingredients) THEN Thrown
    ELSE IF \E i \in 1..Len(ingredients.v) : ~IsStr(ingredients.v[i]) THEN Thrown
    ELSE Arr([i \in 1..Len(ingredients.v) |-> parseIngredient(ingredients.v[i].v)])

\* the ingredient of a line whose amount, unit and item are the groups of
\* match (<<>> if the pattern did not match)
IngredientOfParts(text, match) ==
    IF match # <<>>
    THEN Ing(match[1], match[2], OrElse(match[3], text))
    ELSE Ing("", "", text)

\* RecipeExtractor.parseIngredientText (both variants are the same)
parseIngredientText(text) == IngredientOfParts(text, QuantityLinePattern(text, 0, 0))

\* OCRProcessor.parseIngredientLine; the second pattern /^(.+)$/ and the final
\* return both give the line as the item
parseIngredientLine(line) == IngredientOfParts(line, QuantityLinePattern(line, 1, 1))

-----------------------------------------------------------------------------
(* Structured data (JSON-LD) *)

\* the two versions of RecipeExtractor in the repository
Variants == {"current", "older"}

\* x[k] for a value x that is neither null nor undefined
Get(x, k) == IF x.t = "object" /\ k \in DOMAIN x.v THEN x.v[k] ELSE Undefined

Nullish(x) == x.t \in {"undefined", "null"}

\* x.trim(): not a function unless x is a string
Trimmed(x) == IF IsStr(x) THEN Str(trim(x.v)) ELSE Thrown

RECURSIVE CollapseSpaces(_, _)
\* .replace(/\s+/g, ' ') from index i on
CollapseSpaces(s, i) ==
    IF i > Len(s) THEN ""
    ELSE IF IsSpace(Char(s, i)) THEN " " \o CollapseSpaces(s, SkipSpaces(s, i))
    ELSE LET j == RunEnd(s, i, {Char(s, k) : k \in i..Len(s)} \ SpaceSet)
         IN SubSeq(s, i, j) \o CollapseSpaces(s, j + 1)

\* Formatter.parseDuration: /PT(?:(\d+)H)?(?:(\d+)M)?/ matches at the first "PT"
\* hours * 60 + minutes, when the group (?:(\d+)M)? is tried at index mAt of s
MinutesAt(s, hours, mAt) ==
    LET me == RunEnd(s, mAt, DigitSet)
        hasM == me >= mAt /\ HasAt(s, me + 1, "M")
    IN Num(hours * 60 + (IF hasM THEN DecimalValue(SubSeq(s, mAt, me)) ELSE 0))

\* the minutes of the match that starts with the "PT" at index at of s
DurationAt(s, at) ==
    LET he == RunEnd(s, at + 2, DigitSet)
        hasH == he >= at + 2 /\ HasAt(s, he + 1, "H")
    IN MinutesAt(s, IF hasH THEN DecimalValue(SubSeq(s, at + 2, he)) ELSE 0,
                 IF hasH THEN he + 2 ELSE at + 2)

\* the result for a string s whose first "PT" is at index at (0 if none)
DurationFrom(s, at) == IF at = 0 THEN Null ELSE DurationAt(s, at)

parseDuration(duration) ==
    IF ~Truthy(duration) THEN Null
    ELSE IF ~IsStr(duration) THEN Thrown
    ELSE DurationFrom(duration.v, indexOf(duration.v, "PT", 1))

\* RecipeExtractor.isRecipeType
isRecipeType(type) ==
    IF ~Truthy(type) THEN FALSE
    ELSE IF IsStr(type) THEN toLowerCase(type.v) = "recipe"
    ELSE IF IsArr(type)
    THEN \E i \in 1..Len(type.v) : IsStr(type.v[i]) /\ toLowerCase(type.v[i].v) = "recipe"
    ELSE FALSE

\* what find returns when stops are the indices at which its callback
\* returns true or throws
FirstStop(items, stops) ==
    IF stops = {} THEN Undefined
    ELSE IF Nullish(items[Least(stops)]) THEN Thrown
    ELSE items[Least(stops)]

\* items.find(item => this.isRecipeType(item['@type'])); item['@type'] of a
\* null item throws
FindRecipe(items) ==
    FirstStop(items, {i \in 1..Len(items) :
                        Nullish(items[i]) \/ isRecipeType(Get(items[i], "@type"))})

\* the loop over jsonData.itemListElement when stops are the indices of the
\* elements that end it: with a recipe as their item, or null
FindListedRecipe(list, stops) ==
    IF stops = {} THEN Null
    ELSE IF Nullish(list[Least(stops)]) THEN Thrown
    ELSE Get(list[Least(stops)], "item")

\* RecipeExtractor.findRecipeInJsonLd (both variants are the same)
findRecipeInJsonLd(jsonData) ==
    LET graph == Get(jsonData, "@graph")
        list == Get(jsonData, "itemListElement")
        inner(i) == Get(list.v[i], "item")
    IN IF Nullish(jsonData) THEN Thrown
       ELSE IF isRecipeType(Get(jsonData, "@type")) THEN jsonData
       ELSE IF IsArr(jsonData) THEN FindRecipe(jsonData.v)
       ELSE IF Truthy(graph) THEN (IF IsArr(graph) THEN FindRecipe(graph.v) ELSE Thrown)
       ELSE IF Truthy(list) /\ IsArr(list)
       THEN FindListedRecipe(list.v,
                {i \in 1..Len(list.v) :
                   \/ Nullish(list.v[i])
                   \/ Truthy(inner(i)) /\ isRecipeType(Get(inner(i), "@type"))})
       ELSE Null

\* text.length > 0 ? this.decodeHtmlEntities(text) : ''
DecodedIfAny(text) == IF Len(text) > 0 THEN Str(decodeHtmlEntities(text)) ELSE Str("")

\* extractStepText from the point where the text of the step is found: the
\* markup is removed and the white space collapsed
CleanStepText(raw) ==
    IF raw = Thrown THEN Thrown
    ELSE DecodedIfAny(trim(CollapseSpaces(RemoveTagsFrom(raw.v, 1, " "), 1)))

\* RecipeExtractor.extractStepText (current version): a string or Thrown
extractStepText(inst) ==
    LET item == Get(inst, "item")
    IN IF Nullish(inst) THEN Thrown
       ELSE CleanStepText(
               IF IsStr(inst) THEN Trimmed(inst)
               ELSE IF Truthy(Get(inst, "text")) THEN Trimmed(Get(inst, "text"))
               ELSE IF Truthy(Get(inst, "name")) /\ Get(inst, "@type") = Str("HowToStep")
               THEN Trimmed(Get(inst, "name"))
               ELSE IF Truthy(Get(inst, "description")) THEN Trimmed(Get(inst, "description"))
               ELSE IF Truthy(Get(inst, "instruction")) THEN Trimmed(Get(inst, "instruction"))
               ELSE IF ~Nullish(item) /\ Truthy(Get(item, "text")) THEN Trimmed(Get(item, "text"))
               ELSE Str(""))

\* this.decodeHtmlEntities(text) of a text that was trimmed, or Thrown
Decoded(raw) == IF raw = Thrown THEN Thrown ELSE Str(decodeHtmlEntities(raw.v))

\* the callback of instructions.map in the older parseInstructions
OlderStepText(inst) ==
    IF Nullish(inst) THEN Thrown
    ELSE Decoded(IF IsStr(inst) THEN Trimmed(inst)
                 ELSE IF Truthy(Get(inst, "text")) THEN Trimmed(Get(inst, "text"))
                 ELSE IF Truthy(Get(inst, "name")) THEN Trimmed(Get(inst, "name"))
                 ELSE IF Truthy(Get(inst, "instruction")) THEN Trimmed(Get(inst, "instruction"))
                 ELSE IF Truthy(Get(inst, "description")) THEN Trimmed(Get(inst, "description"))
                 ELSE Str(""))

RECURSIVE SplitInstructions(_, _, _)
\* instructions.split(/\n|(?:\d+\.\s)/): the pieces from index i on, the
\* current piece starting at index from
SplitInstructions(s, from, i) ==
    LET e == RunEnd(s, i, DigitSet)
        numbered == e >= i /\ HasAt(s, e + 1, ".") /\ e + 2 <= Len(s) /\ IsSpace(Char(s, e + 2))
    IN IF i > Len(s) THEN <<SubSeq(s, from, Len(s))>>
       ELSE IF Char(s, i) = "\n"
       THEN <<SubSeq(s, from, i - 1)>> \o SplitInstructions(s, i + 1, i + 1)
       ELSE IF numbered
       THEN <<SubSeq(s, from, i - 1)>> \o SplitInstructions(s, e + 3, e + 3)
       ELSE SplitInstructions(s, from, i + 1)

RECURSIVE Flatten(_)
Flatten(seqs) == IF seqs = <<>> THEN <<>> ELSE Head(seqs) \o Flatten(Tail(seqs))

\* the fragments of a string of instructions, trimmed and decoded
Fragments(instructions) ==
    LET pieces == SplitInstructions(instructions, 1, 1)
    IN [i \in 1..Len(pieces) |-> Str(decodeHtmlEntities(trim(pieces[i])))]

\* .filter(step => step.length > 0) over the texts the callbacks returned;
\* Thrown if one of them threw
NonEmptySteps(all) ==
    IF \E i \in 1..Len(all) : all[i] = Thrown THEN Thrown
    ELSE Arr(SelectSeq(all, LAMBDA x : Len(x.v) > 0))

\* parseInstructions on a value that is no string (in the older version: on
\* any value; map is not a function of a value that is no array)
ListedSteps(variant, instructions) ==
    LET nested(x) == IF Truthy(x) /\ IsArr(x) THEN x.v ELSE <<>>
        \* the steps one element stands for: those of a HowToSection, or itself
        steps(inst) ==
            IF Get(inst, "@type") = Str("HowToSection")
            THEN nested(Get(inst, "itemListElement")) \o nested(Get(inst, "steps"))
            ELSE <<inst>>
        texts(inst) ==
            IF Nullish(inst) THEN <<Thrown>>
            ELSE IF variant = "older" THEN <<OlderStepText(inst)>>
            ELSE [j \in 1..Len(steps(inst)) |-> extractStepText(steps(inst)[j])]
    IN IF ~IsArr(instructions)
       THEN (IF variant = "current" THEN Arr(<<>>) ELSE Thrown)
       ELSE NonEmptySteps(Flatten([i \in 1..Len(instructions.v) |-> texts(instructions.v[i])]))

\* mutant: the string branch keeps every fragment that is not empty
parseInstructions_KeepShort(variant, instructions) ==
    IF variant = "current" /\ IsStr(instructions)
    THEN Arr(SelectSeq(Fragments(instructions.v), LAMBDA x : Len(x.v) > 0))
    ELSE ListedSteps(variant, instructions)

\* RecipeExtractor.parseInstructions: an array of strings or Thrown
parseInstructions(variant, instructions) ==
    IF variant = "current" /\ IsStr(instructions)
    THEN Arr(SelectSeq(Fragments(instructions.v), LAMBDA x : Len(x.v) > 5))
    ELSE ListedSteps(variant, instructions)

\* a property the parsed record does not set; read, it is undefined
Unset == [t |-> "undefined", unset |-> TRUE]

\* if (minutes) recipe.prepTime = minutes
MinutesIfAny(minutes) ==
    IF minutes = Thrown THEN Thrown
    ELSE IF Truthy(minutes) THEN minutes ELSE Unset

\* the record parseJsonLdRecipe has built, or Thrown if a step of it threw
UnlessThrown(recipe) ==
    IF \E k \in DOMAIN recipe : recipe[k] = Thrown THEN Thrown ELSE recipe

\* RecipeExtractor.parseJsonLdRecipe (both variants are the same): the record
\* of the properties it sets, or Thrown
parseJsonLdRecipe(variant, recipeData) ==
    LET image == Get(recipeData, "image")
        yield == Get(recipeData, "recipeYield")
        yieldValue == IF IsArr(yield)
                      THEN (IF Len(yield.v) > 0 THEN yield.v[1] ELSE Undefined)
                      ELSE yield
        digit == CHOOSE i \in 1..Len(yieldValue.v) :
                    /\ IsDigit(Char(yieldValue.v, i))
                    /\ \A j \in 1..(i - 1) : ~IsDigit(Char(yieldValue.v, j))
        time(k) == IF Truthy(Get(recipeData, k))
                   THEN MinutesIfAny(parseDuration(Get(recipeData, k))) ELSE Unset
        list == Get(recipeData, "recipeIngredient")
        instructions == Get(recipeData, "recipeInstructions")
    IN UnlessThrown(
            [title |-> IF Truthy(Get(recipeData, "name")) THEN Get(recipeData, "name") ELSE Unset,
             imageUrl |-> IF ~Truthy(image) THEN Unset
                          ELSE IF IsStr(image) THEN image
                          ELSE IF Truthy(Get(image, "url")) THEN Get(image, "url")
                          ELSE IF IsArr(image)
                          THEN (IF Len(image.v) > 0 THEN image.v[1] ELSE Undefined)
                          ELSE Unset,
             servings |-> IF ~Truthy(yield) THEN Unset
                          ELSE IF IsStr(yieldValue)
                          THEN (IF \E i \in 1..Len(yieldValue.v) : IsDigit(Char(yieldValue.v, i))
                                THEN parseInt(Str(From(yieldValue.v, digit)))
                                ELSE Unset)
                          ELSE IF IsNum(yieldValue) THEN yieldValue
                          ELSE Unset,
             prepTime |-> time("prepTime"),
             cookTime |-> time("cookTime"),
             ingredients |-> IF Truthy(list) /\ IsArr(list) THEN parseIngredients(list) ELSE Unset,
             steps |-> IF Truthy(instructions)
                       THEN parseInstructions(variant, instructions) ELSE Unset])

\* a JSON-LD script block whose content JSON.parse rejects
Malformed == [t |-> "SyntaxError"]

\* the value extractFromJsonLd returns at a block whose recipe data parsed to
\* recipe, when the blocks after it give rest
ParsedOr(recipe, rest) == IF recipe # Thrown THEN recipe ELSE rest

\* one turn of the loop of extractFromJsonLd, for a block where
\* findRecipeInJsonLd returned recipeData
FromBlock(variant, recipeData, rest) ==
    IF recipeData # Thrown /\ Truthy(recipeData)
    THEN ParsedOr(parseJsonLdRecipe(variant, recipeData), rest)
    ELSE rest

\* extractFromJsonLd if a block that fails ended the scan: only the first
\* block is looked at
extractFromJsonLd_FirstBlockOnly(variant, blocks) ==
    IF blocks = <<>> THEN Null
    ELSE FromBlock(variant,
                   IF Head(blocks) = Malformed THEN Thrown ELSE findRecipeInJsonLd(Head(blocks)),
                   Null)

RECURSIVE extractFromJsonLd(_, _)
\* RecipeExtractor.extractFromJsonLd over the parsed contents of the JSON-LD
\* script blocks of the page, in document order: the record of the first
\* block that holds a recipe and parses without an exception, else null
extractFromJsonLd(variant, blocks) ==
    IF blocks = <<>> THEN Null
    ELSE FromBlock(variant,
                   IF Head(blocks) = Malformed THEN Thrown ELSE findRecipeInJsonLd(Head(blocks)),
                   extractFromJsonLd(variant, Tail(blocks)))

-----------------------------------------------------------------------------
(* Markup patterns *)

\* The regular expressions over the markup have one shape,
\*   <OPEN[^>]*LIT[^>]*>([\s\S]*?)CLOSE       with flags gi,
\* where LIT is a literal (itemprop="recipeIngredient"), or class=" followed
\* by a value that holds a needle ([^"]*ingredient[^"]*"), and the capture may
\* start after a nested opening tag ([\s\S]*?<ul[^>]*>).  A pattern is the
\* record of these parts, in lower case as the i flag compares them:
\*   open, lits, needles, inner, close, min (least length of the capture),
\*   plain (the capture is [^<], it holds no "<"), quotes (the quotes that may
\*   delimit a captured attribute value).
\* Attribute values are taken to hold no ">".
Pattern(open, lits, needles, close) ==
    [open |-> open, lits |-> lits, needles |-> needles, inner |-> "",
     close |-> close, min |-> 0, plain |-> FALSE, quotes |-> {"\""}]

\* /<tag[^>]*class="[^"]*needle[^"]*"[^>]*>([\s\S]*?)<\/tag>/gi
ClassPattern(tag, needle) ==
    Pattern("<" \o tag, {"class=\""}, {needle}, "</" \o tag \o ">")

\* /<tag[^>]*lit[^>]*>([\s\S]*?)<\/tag>/gi
LitPattern(tag, lit) == Pattern("<" \o tag, {lit}, {}, "</" \o tag \o ">")

\* the text of an opening tag satisfies LIT
TagHas(tagText, lits, needles) ==
    \E lit \in lits : \E k \in 1..(Len(tagText) + 1) :
        /\ HasAt(tagText, k, lit)
        /\ \/ needles = {}
           \/ LET q == PosIn(tagText, "\"", k + Len(lit))
              IN q > 0 /\ \E n \in needles : includes(SubSeq(tagText, k + Len(lit), q - 1), n)

RECURSIVE MatchAllFrom(_, _, _, _), MatchFromTag(_, _, _, _, _, _)
RECURSIVE MatchFromCapture(_, _, _, _, _, _)
\* [...htmlContent.matchAll(pat)].map(m => m[1]), searching from index i; low is
\* htmlContent in lower case
MatchAllFrom(htmlContent, low, pat, i) ==
    LET start == indexOf(low, pat.open, i)
        after == start + Len(pat.open)
    IN IF start = 0 THEN <<>>
       ELSE MatchFromTag(htmlContent, low, pat, start, after,
                IF HasAt(pat.open, Len(pat.open), ">") THEN after - 1 ELSE PosIn(low, ">", after))

\* the captures from the occurrence of pat.open at index start on; the text
\* of its tag starts at index after and ends before the ">" at index g
MatchFromTag(htmlContent, low, pat, start, after, g) ==
    LET nested == indexOf(low, pat.inner, g + 1)
        ng == PosIn(low, ">", nested + Len(pat.inner))
    IN MatchFromCapture(htmlContent, low, pat, start,
            g > 0 /\ TagHas(SubSeq(low, after, g - 1), pat.lits, pat.needles),
            IF pat.inner = "" THEN g + 1
            ELSE IF nested > 0 /\ ng > 0 THEN ng + 1 ELSE 0)

\* the captures from the occurrence of pat.open at index start on; okTag
\* tells whether its tag satisfies the pattern, the capture starts at index
\* from (0 if the nested tag is missing)
MatchFromCapture(htmlContent, low, pat, start, okTag, from) ==
    LET c == indexOf(low, pat.close, from)
        \* <\/[^>]+> closes with the first ">" after "</"
        e == IF pat.close = "</" THEN PosIn(low, ">", c + 3) ELSE c + Len(pat.close) - 1
        capture == SubSeq(htmlContent, from, c - 1)
        ok == /\ okTag /\ from > 0 /\ c > 0 /\ e > 0
              /\ Len(capture) >= pat.min
              /\ pat.plain => ~includes(capture, "<")
    IN IF ok THEN <<capture>> \o MatchAllFrom(htmlContent, low, pat, e + 1)
       ELSE MatchAllFrom(htmlContent, low, pat, start + 1)

\* where the attribute value that starts at index k of tagText ends: before
\* the next quote
ValueEnd(tagText, k, quotes) ==
    RunEnd(tagText, k, {Char(tagText, j) : j \in 1..Len(tagText)} \ quotes)

RECURSIVE AttributesFrom(_, _, _, _, _, _), AttributesFromTag(_, _, _, _, _, _, _, _)
RECURSIVE AttributesFromValue(_, _, _, _, _, _, _, _, _)
\* the captures of /<OPEN[^>]*LIT[^>]*attr=Q([^Q]+)Q/gi (before = FALSE) or of
\* /<OPEN[^>]*attr=Q([^Q]+)Q[^>]*LIT/gi (before = TRUE), Q a quote of quotes;
\* pat gives open, lits and needles
AttributesFrom(htmlContent, low, pat, attr, before, i) ==
    LET start == indexOf(low, pat.open, i)
        after == start + Len(pat.open)
        g == PosIn(low, ">", after)
    IN IF start = 0 THEN <<>>
       ELSE AttributesFromTag(htmlContent, low, pat, attr, before, start, after,
                              SubSeq(low, after, IF g = 0 THEN Len(low) ELSE g - 1))

\* the captures from the occurrence of pat.open at index start on; the text
\* of its tag is tagText and starts at index after
AttributesFromTag(htmlContent, low, pat, attr, before, start, after, tagText) ==
    LET \* where in the tag text the quoted value of attr starts
        values == {k \in 1..Len(tagText) :
                     /\ \E q \in pat.quotes : HasAt(tagText, k - Len(attr) - 2, attr \o "=" \o q)
                     /\ Char(tagText, k) \notin pat.quotes
                     /\ \E j \in (k + 1)..Len(tagText) : Char(tagText, j) \in pat.quotes}
        end(k) == ValueEnd(tagText, k, pat.quotes)
    IN AttributesFromValue(htmlContent, low, pat, attr, before, start, after, tagText,
            {k \in values :
                IF before
                THEN TagHas(SubSeq(tagText, end(k) + 2, Len(tagText)), pat.lits, pat.needles)
                ELSE TagHas(SubSeq(tagText, 1, k - Len(attr) - 3), pat.lits, pat.needles)})

\* the captures from the occurrence of pat.open at index start on; good are
\* the indices in its tag text where a value starts that the pattern captures
AttributesFromValue(htmlContent, low, pat, attr, before, start, after, tagText, good) ==
    LET k == Least(good)
        end == ValueEnd(tagText, k, pat.quotes)
    IN IF good # {}
       THEN <<SubSeq(htmlContent, after + k - 1, after + end - 1)>>
            \o AttributesFrom(htmlContent, low, pat, attr, before, after + end + 1)
       ELSE AttributesFrom(htmlContent, low, pat, attr, before, start + 1)

\* itemprop=["']name["']
Quoted(attr, names) ==
    {attr \o "=" \o q1 \o n \o q2 : q1 \in {"\"", "'"}, n \in names, q2 \in {"\"", "'"}}

\* RecipeExtractor.cleanExtractedText
cleanExtractedText(text) ==
    IF text = "" THEN ""
    ELSE decodeHtmlEntities(trim(CollapseSpaces(RemoveTagsFrom(text, 1, " "), 1)))

\* the older version cleans a capture in line:
\* this.decodeHtmlEntities(match[1].replace(/<[^>]*>/g, '').trim())
OlderCleanText(text) == decodeHtmlEntities(trim(RemoveTagsFrom(text, 1, "")))

\* the longest text that is not taken for boilerplate
MaxTextLength == 500

\* isBoilerplateText of a text whose lower case is lower
IsBoilerplate(text, lower) ==
    LET e == RunEnd(lower, 1, DigitSet)
        counted == SkipSpaces(lower, e + 1)
    IN \/ \E w \in {"advertisement", "sponsored", "subscribe", "sign up", "log in", "print",
                    "share", "save", "pin", "email",
                    "jump to", "skip to", "view", "see", "read more", "click", "tap",
                    "nutrition", "calories", "serving size"} : HasAt(lower, 1, w)
       \/ e >= 1 /\ \E w \in {"comment", "review", "rating"} : HasAt(lower, counted, w)
       \/ Len(text) > MaxTextLength

\* RecipeExtractor.isBoilerplateText
isBoilerplateText(text) == IsBoilerplate(text, toLowerCase(text))

\* ingredientPatterns of extractIngredientsFromHtml
ingredientPatterns(variant) ==
    IF variant = "older"
    THEN << ClassPattern("li", "ingredient"),
            LitPattern("li", "itemprop=\"recipeingredient\""),
            ClassPattern("span", "ingredient"),
            ClassPattern("p", "ingredient") >>
    ELSE << ClassPattern("li", "ingredient"),
            LitPattern("li", "itemprop=\"recipeingredient\""),
            LitPattern("span", "data-ingredient-name=\"true\""),
            ClassPattern("li", "mntl-structured-ingredients__list-item"),
            ClassPattern("span", "o-ingredients__a-ingredient"),
            ClassPattern("div", "ingredient"),
            ClassPattern("li", "xs-mb1"),
            ClassPattern("li", "pb-xxs"),
            ClassPattern("span", "ingredient"),
            ClassPattern("p", "ingredient"),
            Pattern("<", {"data-ingredient"}, {}, "</"),
            ClassPattern("label", "ingredient") >>

\* stepPatterns of extractStepsFromHtml; the older list ends with the pattern
\* of an ordered list, which is handled apart
stepPatterns(variant) ==
    IF variant = "older"
    THEN << LitPattern("li", "data-testid=\"instruction-text\""),
            ClassPattern("p", "recipe-summary__item"),
            ClassPattern("div", "recipe-instruction"),
            ClassPattern("li", "instruction"),
            LitPattern("li", "itemprop=\"recipeinstructions\""),
            ClassPattern("div", "direction"),
            ClassPattern("div", "step"),
            ClassPattern("p", "instruction"),
            ClassPattern("ol", "instructions") >>
    ELSE << LitPattern("li", "data-testid=\"instruction-text\""),
            ClassPattern("p", "mntl-sc-block-html"),
            ClassPattern("div", "recipe-instruction"),
            ClassPattern("li", "o-method__m-step"),
            ClassPattern("p", "instruction"),
            ClassPattern("div", "step-instruction"),
            ClassPattern("li", "recipe-steps"),
            ClassPattern("li", "method-steps"),
            ClassPattern("li", "prep-steps"),
            ClassPattern("li", "instruction"),
            ClassPattern("li", "direction"),
            ClassPattern("li", "step"),
            LitPattern("li", "itemprop=\"recipeinstructions\""),
            ClassPattern("div", "direction"),
            ClassPattern("div", "step"),
            Pattern("<", {"data-instruction"}, {}, "</") >>

\* /<li[^>]*>([\s\S]*?)<\/li>/gi and /<p[^>]*>([\s\S]*?)<\/p>/gi
AnyTag(tag) == Pattern("<" \o tag, {""}, {}, "</" \o tag \o ">")

\* mutant: every text that is not empty passes the length test
KeptTexts_AnyLength(captures, variant, longerThan) ==
    LET text(c) == IF variant = "older" THEN OlderCleanText(c) ELSE cleanExtractedText(c)
    IN SelectSeq([i \in 1..Len(captures) |-> text(captures[i])], LAMBDA t :
           /\ Len(t) > 0
           /\ variant = "current" => ~isBoilerplateText(t))

\* the texts of captures that pass the length test (and, in the current
\* version, the boilerplate test), in order
KeptTexts(captures, variant, longerThan) ==
    LET text(c) == IF variant = "older" THEN OlderCleanText(c) ELSE cleanExtractedText(c)
    IN SelectSeq([i \in 1..Len(captures) |-> text(captures[i])], LAMBDA t :
           /\ Len(t) > longerThan
           /\ variant = "current" => ~isBoilerplateText(t))

\* recipe.ingredients.push(this.parseIngredientText(text)) for each kept text
IngredientsOf(texts) == [i \in 1..Len(texts) |-> parseIngredientText(texts[i])]

\* recipe.steps.push(text) for each kept text
StepsOf(texts) == [i \in 1..Len(texts) |-> Str(texts[i])]

RECURSIVE Gather(_, _, _)
\* the loops "for each pattern (or list): push what it yields; stop as soon
\* as more than limit are held", over the yields in order
Gather(groups, acc, limit) ==
    IF groups = <<>> THEN acc
    ELSE LET next == acc \o Head(groups)
         IN IF Len(next) > limit THEN next ELSE Gather(Tail(groups), next, limit)

\* what each element of a sequence yields
Yields(elements, yield(_)) == [j \in 1..Len(elements) |-> yield(elements[j])]

\* the captures of each pattern, each searched for list items
ListGroups(htmlContent, low, patterns) ==
    LET items(list) == MatchAllFrom(list, toLowerCase(list), AnyTag("li"), 1)
    IN Flatten([k \in 1..Len(patterns) |->
                  Yields(MatchAllFrom(htmlContent, low, patterns[k], 1), items)])

\* /<h[2-4][^>]*>[^<]*WORD[^<]*<\/h[2-4]>\s*([\s\S]*?)(?=<h[2-4]|<\/article|<\/main|$)/gi
HeadingSection(words) ==
    [opens |-> {"<h2", "<h3", "<h4"}, closes |-> {"</h2>", "</h3>", "</h4>"},
     words |-> words, stops |-> {"<h2", "<h3", "<h4", "</article", "</main"}]

\* /<tag>[^<]*WORD[^<]*<\/tag>\s*([\s\S]*?)(?=<tag>|<h[2-4]|$)/gi
BoldSection(tag, words) ==
    [opens |-> {"<" \o tag \o ">"}, closes |-> {"</" \o tag \o ">"},
     words |-> words, stops |-> {"<" \o tag \o ">", "<h2", "<h3", "<h4"}]

\* where the text of the heading whose tag opens at index k ends: at the
\* first "<" after the ">" of the tag (0 if there is none)
HeadingEnd(low, k) == PosIn(low, "<", PosIn(low, ">", k) + 1)

RECURSIVE SectionsFrom(_, _, _, _), SectionsFromHeads(_, _, _, _)
RECURSIVE SectionsFromBody(_, _, _, _)
\* [...htmlContent.matchAll(sec)].map(m => m[1]), searching from index i: a
\* heading whose text holds one of the words, then the markup up to the
\* first stop or the end
SectionsFrom(htmlContent, low, sec, i) ==
    LET g(k) == PosIn(low, ">", k)
        c(k) == HeadingEnd(low, k)
    IN SectionsFromHeads(htmlContent, low, sec,
            {k \in i..Len(low) :
                /\ \E o \in sec.opens : HasAt(low, k, o)
                /\ g(k) > 0 /\ c(k) > 0
                /\ \E w \in sec.words : includes(SubSeq(low, g(k) + 1, c(k) - 1), w)
                /\ \E cl \in sec.closes : HasAt(low, c(k), cl)})

\* the sections when heads are the indices at which a heading of sec starts
SectionsFromHeads(htmlContent, low, sec, heads) ==
    IF heads = {} THEN <<>>
    ELSE SectionsFromBody(htmlContent, low, sec,
            SkipSpaces(low, PosIn(low, ">", HeadingEnd(low, Least(heads))) + 1))

\* the sections when the body of the first one starts at index from
SectionsFromBody(htmlContent, low, sec, from) ==
    LET ends == {k \in from..Len(low) : \E st \in sec.stops : HasAt(low, k, st)}
        to == IF ends = {} THEN Len(low) + 1 ELSE Least(ends)
    IN <<SubSeq(htmlContent, from, to - 1)>> \o SectionsFrom(htmlContent, low, sec, to)

\* a paragraph that reads like an ingredient: it holds a digit or a unit
looksLikeIngredient(t) ==
    /\ Len(t) > 3 /\ Len(t) < 200
    /\ \/ \E k \in 1..Len(t) : IsDigit(Char(t, k))
       \/ \E w \in {"cup", "tbsp", "tsp", "oz", "lb", "gram", "ml", "pinch", "dash"} :
             includes(toLowerCase(t), w)

\* what a section yields whose list items are lis and whose paragraphs are ps
SectionIngredients(lis, ps) ==
    IngredientsOf(IF Len(lis) > 0 THEN KeptTexts(lis, "current", 2)
                  ELSE SelectSeq([j \in 1..Len(ps) |-> cleanExtractedText(ps[j])],
                                 looksLikeIngredient))

\* extractIngredientsFromBlogFormat: what each section yields
BlogIngredientGroups(htmlContent, low) ==
    LET secs == << HeadingSection({"ingredients"}), BoldSection("strong", {"ingredients"}),
                   BoldSection("b", {"ingredients"}) >>
        yield(section) ==
            SectionIngredients(MatchAllFrom(section, toLowerCase(section), AnyTag("li"), 1),
                               MatchAllFrom(section, toLowerCase(section), AnyTag("p"), 1))
    IN Flatten([k \in 1..Len(secs) |-> Yields(SectionsFrom(htmlContent, low, secs[k], 1), yield)])

\* the list items of the first of the lists found, none if none was found
FirstListItems(found) ==
    IF found = <<>> THEN <<>>
    ELSE MatchAllFrom(found[1], toLowerCase(found[1]), AnyTag("li"), 1)

\* what a section yields whose ordered lists are ols and whose paragraphs are
\* ps: the items of the first list that are longer than 15, or without a list
\* the paragraphs that are longer than 30
SectionSteps(ols, ps) ==
    StepsOf(KeptTexts(IF Len(ols) > 0 THEN FirstListItems(ols) ELSE ps, "current",
                      IF Len(ols) > 0 THEN 15 ELSE 30))

\* extractStepsFromBlogFormat: what each section yields
BlogStepGroups(htmlContent, low) ==
    LET secs == << HeadingSection({"instruction", "direction", "method", "step", "how to make"}),
                   BoldSection("strong", {"instruction", "direction", "method"}) >>
        yield(section) ==
            SectionSteps(MatchAllFrom(section, toLowerCase(section), AnyTag("ol"), 1),
                         MatchAllFrom(section, toLowerCase(section), AnyTag("p"), 1))
    IN Flatten([k \in 1..Len(secs) |-> Yields(SectionsFrom(htmlContent, low, secs[k], 1), yield)])

\* if (recipe.ingredients.length === 0) try the next way: what was found, or
\* if that is nothing what the next way finds
OrIfNone(found, next) == IF Len(found) > 0 THEN found ELSE next

\* RecipeExtractor.extractIngredientsFromHtml: recipe.ingredients afterwards
extractIngredientsFromHtml(variant, htmlContent, low, ingredients) ==
    LET patterns == ingredientPatterns(variant)
        byPattern(k) == IngredientsOf(KeptTexts(MatchAllFrom(htmlContent, low, patterns[k], 1),
                                                variant, 2))
        listPatterns == << ClassPattern("ul", "ingredient"),
                           Pattern("<ul", {"id=\""}, {"ingredient"}, "</ul>"),
                           [ClassPattern("div", "ingredient") EXCEPT !.inner = "<ul", !.close = "</ul>"] >>
        byList(list) == IngredientsOf(KeptTexts(list, variant, 2))
    IN OrIfNone(Gather([k \in 1..Len(patterns) |-> byPattern(k)],
                       ingredients, IF variant = "older" THEN 0 ELSE 2),
                IF variant = "older" THEN <<>>
                ELSE OrIfNone(Gather(Yields(ListGroups(htmlContent, low, listPatterns), byList),
                                     <<>>, 2),
                              Gather(BlogIngredientGroups(htmlContent, low), <<>>, 2)))

\* the last resort of extractStepsFromLists:
\* /<p[^>]*>\s*(?:Step\s*)?\d+[.:]\s*([\s\S]*?)<\/p>/gi
NumberedParagraphs(htmlContent, low) ==
    LET number(t) == LET a == SkipSpaces(t, 1)
                     IN IF HasAt(toLowerCase(t), a, "step") THEN SkipSpaces(t, a + 4) ELSE a
        mark(t) == RunEnd(t, number(t), DigitSet) + 1
        numbered(t) == mark(t) > number(t) /\ (HasAt(t, mark(t), ".") \/ HasAt(t, mark(t), ":"))
        capture(t) == From(t, SkipSpaces(t, mark(t) + 1))
    IN Yields(SelectSeq(MatchAllFrom(htmlContent, low, AnyTag("p"), 1), numbered), capture)

\* RecipeExtractor.extractStepsFromHtml: recipe.steps afterwards
extractStepsFromHtml(variant, htmlContent, low, steps) ==
    LET patterns == stepPatterns(variant)
        longerThan == IF variant = "older" THEN 10 ELSE 15
        captures(pat, found) == IF pat.open # "<ol" THEN found ELSE FirstListItems(found)
        byPattern(k) ==
            StepsOf(KeptTexts(captures(patterns[k], MatchAllFrom(htmlContent, low, patterns[k], 1)),
                              variant, longerThan))
        words == {"instruction", "direction", "method", "step"}
        listPatterns == << Pattern("<ol", {"class=\""}, words \cup {"recipe"}, "</ol>"),
                           Pattern("<ol", {"id=\""}, words, "</ol>"),
                           Pattern("<ul", {"class=\""}, words, "</ul>"),
                           [Pattern("<div", {"class=\""}, words \ {"step"}, "</ol>")
                               EXCEPT !.inner = "<ol"] >>
        byList(list) == StepsOf(KeptTexts(list, variant, 15))
    IN OrIfNone(Gather([k \in 1..Len(patterns) |-> byPattern(k)],
                       steps, IF variant = "older" THEN 0 ELSE 1),
                IF variant = "older" THEN <<>>
                ELSE OrIfNone(Gather(Yields(ListGroups(htmlContent, low, listPatterns), byList),
                                     <<>>, 1),
                     OrIfNone(byList(NumberedParagraphs(htmlContent, low)),
                              Gather(BlogStepGroups(htmlContent, low), <<>>, 1))))

\* the first element of a sequence of captures, "" if there is none
FirstOf(captures) == IF captures = <<>> THEN "" ELSE captures[1]

\* the first of the texts that is not empty, "" if all are
FirstNonEmpty(texts) ==
    LET hits == {k \in 1..Len(texts) : texts[k] # ""}
    IN IF hits = {} THEN "" ELSE texts[Least(hits)]

\* .replace(/\s*\|.*$/, '') of a title
DropAfterBar(decoded) ==
    LET bars == {k \in 1..Len(decoded) :
                   Char(decoded, k) = "|" /\ (k = Len(decoded) \/ MatchesDotPlus(From(decoded, k + 1)))}
    IN IF bars = {} THEN decoded
       ELSE SubSeq(decoded, 1, SkipSpacesBack(decoded, Least(bars) - 1))

\* the title without the match of /Recipe\s*[-]\s*/i that starts at index at
DropDashAt(cut, at) ==
    SubSeq(cut, 1, at - 1) \o From(cut, SkipSpaces(cut, SkipSpaces(cut, at + 6) + 1))

\* .replace(/Recipe\s*[-–]\s*/i, '') of a title; the en dash is outside the
\* repertoire
DropRecipeDash(cut) ==
    LET dashes == {k \in 1..Len(cut) :
                     /\ HasAt(toLowerCase(cut), k, "recipe")
                     /\ HasAt(cut, SkipSpaces(cut, k + 6), "-")}
    IN IF dashes = {} THEN cut ELSE DropDashAt(cut, Least(dashes))

\* recipe.title once the first pattern that matches has captured found, ""
\* if none has matched
TitleOf(title, found) ==
    IF found = "" THEN title
    ELSE Str(DropRecipeDash(DropAfterBar(decodeHtmlEntities(found))))

\* RecipeExtractor.extractTitleFromHtml (both variants are the same):
\* recipe.title afterwards
extractTitleFromHtml(htmlContent, low, title) ==
    LET text(pat) == [pat EXCEPT !.min = 1, !.plain = TRUE]
        titlePatterns == << text(ClassPattern("h1", "recipe")), text(AnyTag("h1")),
                            text(ClassPattern("h2", "recipe")),
                            text(Pattern("<title>", {""}, {}, "</title>")) >>
        found(k) == trim(FirstOf(MatchAllFrom(htmlContent, low, titlePatterns[k], 1)))
    IN TitleOf(title, FirstNonEmpty([k \in 1..Len(titlePatterns) |-> found(k)]))

\* imageUrl.split(' ')[0].split(',')[0].trim() when first is the part of
\* the url before its first space
FirstOfSrcset(first, comma) == trim(IF comma = 0 THEN first ELSE SubSeq(first, 1, comma - 1))

\* recipe.imageUrl once the first pattern that matches has captured url, ""
\* if none has matched
ImageOf(imageUrl, url) ==
    IF url = "" THEN imageUrl
    ELSE IF ~includes(url, " ") THEN Str(url)
    ELSE Str(FirstOfSrcset(SubSeq(url, 1, PosIn(url, " ", 1) - 1),
                           PosIn(SubSeq(url, 1, PosIn(url, " ", 1) - 1), ",", 1)))

\* RecipeExtractor.extractImageFromHtml (both variants are the same):
\* recipe.imageUrl afterwards
extractImageFromHtml(htmlContent, low, imageUrl) ==
    LET imgPatterns ==
            << <<LitPattern("meta", "property=\"og:image\""), "content", FALSE>>,
               <<LitPattern("meta", "property=\"og:image\""), "content", TRUE>>,
               <<LitPattern("meta", "name=\"twitter:image\""), "content", FALSE>>,
               <<LitPattern("img", "itemprop=\"image\""), "src", FALSE>>,
               <<ClassPattern("img", "recipe"), "src", FALSE>>,
               <<ClassPattern("img", "hero"), "src", FALSE>>,
               <<ClassPattern("img", "featured"), "src", FALSE>>,
               <<ClassPattern("img", "recipe"), "data-src", TRUE>>,
               <<LitPattern("source", "type=\"image"), "srcset", TRUE>> >>
        found(k) == FirstOf(AttributesFrom(htmlContent, low, imgPatterns[k][1],
                                           imgPatterns[k][2], imgPatterns[k][3], 1))
    IN ImageOf(imageUrl, FirstNonEmpty([k \in 1..Len(imgPatterns) |-> found(k)]))

\* the ingredients extractFromMicrodata pushes for the matches of the
\* ingredient properties
MicrodataIngredients(ingredientMatches) ==
    IngredientsOf(SelectSeq([i \in 1..Len(ingredientMatches) |->
                                decodeHtmlEntities(trim(ingredientMatches[i]))],
                            LAMBDA t : Len(t) > 2))

\* the steps extractFromMicrodata pushes for the matches of recipeInstructions
MicrodataSteps(instructionMatches) ==
    StepsOf(SelectSeq([i \in 1..Len(instructionMatches) |->
                          decodeHtmlEntities(trim(RemoveTagsFrom(instructionMatches[i], 1, " ")))],
                      LAMBDA t : Len(t) > 5))

\* a property of the microdata record that was set from a capture unless
\* the capture is empty
StrIfAny(captured) == IF captured # "" THEN Str(captured) ELSE Unset

\* what extractFromMicrodata returns: the record of the properties found, or
\* Null if it holds no ingredient and no step
MicrodataRecord(title, ingredientMatches, ingredients, instructionMatches, steps, imageUrl) ==
    IF Len(ingredients) = 0 /\ Len(steps) = 0 THEN Null
    ELSE [title |-> title,
          ingredients |-> IF ingredientMatches = <<>> THEN Unset ELSE Arr(ingredients),
          steps |-> IF instructionMatches = <<>> THEN Unset ELSE Arr(steps),
          imageUrl |-> imageUrl]

\* the record when the properties have matched as given
MicrodataOf(title, ingredientMatches, instructionMatches, imageUrl) ==
    MicrodataRecord(IF title # "" THEN Str(decodeHtmlEntities(trim(title))) ELSE Unset,
                    ingredientMatches, MicrodataIngredients(ingredientMatches),
                    instructionMatches, MicrodataSteps(instructionMatches),
                    StrIfAny(imageUrl))

\* RecipeExtractor.extractFromMicrodata (current version only): the record of
\* the properties found, or Null
extractFromMicrodata(htmlContent, low) ==
    LET either == {"\"", "'"}
        prop(names) == [Pattern("<", Quoted("itemprop", names), {}, "<") EXCEPT !.quotes = either]
        listed == {"recipeingredient", "ingredients"}
    IN MicrodataOf(
          OrElse(FirstOf(MatchAllFrom(htmlContent, low, [prop({"name"}) EXCEPT !.min = 1], 1)),
                 FirstOf(AttributesFrom(htmlContent, low, prop({"name"}), "content", FALSE, 1))),
          MatchAllFrom(htmlContent, low, prop(listed), 1)
             \o AttributesFrom(htmlContent, low, prop(listed), "content", FALSE, 1),
          MatchAllFrom(htmlContent, low, [prop({"recipeinstructions"}) EXCEPT !.close = "</"], 1),
          OrElse(FirstOf(AttributesFrom(htmlContent, low,
                            [prop({"image"}) EXCEPT !.open = "<img"], "src", FALSE, 1)),
                 FirstOf(AttributesFrom(htmlContent, low, prop({"image"}), "content", FALSE, 1))))

\* CONFIG.DEFAULT_RECIPE
DEFAULT_SERVINGS == 4
DEFAULT_PREP_TIME == 15
DEFAULT_COOK_TIME == 30

\* the least length of the text content of a page that is not minimal
MIN_CONTENT_LENGTH == 1000

\* the messages that stand in for what could not be extracted
CheckOriginal == " - please check the original recipe"
RequiresJavaScript ==
    " - this site may require JavaScript to load content. Try using the photo feature instead."

\* the recipe object extractRecipeFromHtml starts from
NewRecipe(sourceUrl, parsed) ==
    [url |-> sourceUrl,
     title |-> Str("Recipe from " \o (IF parsed = Null THEN "website" ELSE parsed.hostname)),
     ingredients |-> Arr(<<>>),
     servings |-> Num(DEFAULT_SERVINGS),
     prepTime |-> Num(DEFAULT_PREP_TIME),
     cookTime |-> Num(DEFAULT_COOK_TIME),
     steps |-> Arr(<<>>),
     imageUrl |-> Null]

\* Object.assign(recipe, jsonLdRecipe) if extractFromJsonLd has found a recipe
Assigned(recipe, jsonLdRecipe) ==
    IF jsonLdRecipe = Null THEN recipe
    ELSE [k \in DOMAIN recipe |->
            IF k \in DOMAIN jsonLdRecipe /\ jsonLdRecipe[k] # Unset
            THEN jsonLdRecipe[k] ELSE recipe[k]]

\* recipe.ingredients.length > 0 && recipe.steps.length > 0
IsComplete(recipe) == Len(recipe.ingredients.v) > 0 /\ Len(recipe.steps.v) > 0

\* the recipe on its way through extractRecipeFromHtml: returned tells
\* whether the function returns it as it is
Returned(recipe, returned) == [recipe |-> recipe, returned |-> returned]

\* the merge of the microdata record into the recipe
MergeMicrodata(recipe, microdataRecipe) ==
    [recipe EXCEPT
        !.title = IF Truthy(microdataRecipe.title) /\ HasAt(@.v, 1, "Recipe from")
                  THEN microdataRecipe.title ELSE @,
        !.ingredients = IF microdataRecipe.ingredients # Unset
                           /\ Len(microdataRecipe.ingredients.v) > 0 /\ Len(@.v) = 0
                        THEN microdataRecipe.ingredients ELSE @,
        !.steps = IF microdataRecipe.steps # Unset
                     /\ Len(microdataRecipe.steps.v) > 0 /\ Len(@.v) = 0
                  THEN microdataRecipe.steps ELSE @,
        !.imageUrl = IF microdataRecipe.imageUrl # Unset /\ ~Truthy(@)
                     THEN microdataRecipe.imageUrl ELSE @]

\* the recipe after the microdata merge, returned if it has ingredients and
\* steps now
AfterMerge(recipe) == Returned(recipe, IsComplete(recipe))

\* the microdata step of the current version; recipe.title.startsWith is not
\* a function unless the title is a string
FromMicrodata(recipe, microdataRecipe) ==
    IF microdataRecipe = Null THEN Returned(recipe, FALSE)
    ELSE IF Truthy(microdataRecipe.title) /\ ~IsStr(recipe.title) THEN Thrown
    ELSE AfterMerge(MergeMicrodata(recipe, microdataRecipe))

\* the structured-data steps: recipe is the recipe after Object.assign,
\* found tells whether extractFromJsonLd has found one
FromStructuredData(variant, recipe, found, microdataRecipe) ==
    IF variant = "older"
    THEN Returned(recipe, found /\ (Len(recipe.ingredients.v) > 0 \/ Len(recipe.steps.v) > 0))
    ELSE IF found /\ IsComplete(recipe) THEN Returned(recipe, TRUE)
    ELSE FromMicrodata(recipe, microdataRecipe)

\* RecipeExtractor.extractFromHtmlPatterns: the recipe afterwards
extractFromHtmlPatterns(variant, htmlContent, low, recipe) ==
    [recipe EXCEPT
       !.title = extractTitleFromHtml(htmlContent, low, @),
       !.ingredients = Arr(extractIngredientsFromHtml(variant, htmlContent, low, @.v)),
       !.steps = Arr(extractStepsFromHtml(variant, htmlContent, low, @.v)),
       !.imageUrl = extractImageFromHtml(htmlContent, low, @)]

\* the recipe with a placeholder for each list that is still empty
WithPlaceholders(recipe, hint) ==
    [recipe EXCEPT
       !.ingredients = IF Len(@.v) = 0
                       THEN Arr(<<Ing("", "", "Could not extract ingredients" \o hint)>>)
                       ELSE @,
       !.steps = IF Len(@.v) = 0
                 THEN Arr(<<Str("Could not extract instructions" \o hint)>>) ELSE @]

\* the hint of the placeholders: the current version tells a page of minimal
\* content apart
HintOf(variant, page) ==
    LET textContent == trim(CollapseSpaces(RemoveTagsFrom(page.body, 1, " "), 1))
        isMinimalContent == Len(textContent) + page.ldLength < MIN_CONTENT_LENGTH
    IN IF variant = "current" /\ isMinimalContent THEN RequiresJavaScript ELSE CheckOriginal

\* the rest of extractRecipeFromHtml after the structured-data steps
FromPatterns(variant, page, low, structured) ==
    IF structured = Thrown THEN Thrown
    ELSE IF structured.returned THEN structured.recipe
    ELSE WithPlaceholders(extractFromHtmlPatterns(variant, page.body, low, structured.recipe),
                          HintOf(variant, page))

\* extractRecipeFromHtml when extractFromJsonLd has returned jsonLdRecipe
FromJsonLd(variant, page, low, recipe, jsonLdRecipe) ==
    FromPatterns(variant, page, low,
                 FromStructuredData(variant, Assigned(recipe, jsonLdRecipe), jsonLdRecipe # Null,
                                    extractFromMicrodata(page.body, low)))

\* RecipeExtractor.extractRecipeFromHtml of a page: ld holds the parsed
\* contents of its JSON-LD script blocks in document order, body the rest of
\* its markup, ldLength the characters the script blocks add to its text.
\* The recipe returned, or Thrown.
extractRecipeFromHtml(variant, page, sourceUrl) ==
    FromJsonLd(variant, page, toLowerCase(page.body),
               NewRecipe(sourceUrl, IF IsStr(sourceUrl) THEN ParseURL(sourceUrl.v) ELSE Null),
               extractFromJsonLd(variant, page.ld))

\* the error extractRecipe throws
AppError(message, type, details) ==
    [t |-> "AppError", message |-> message, type |-> type, details |-> details]

IsAppError(x) == "t" \in DOMAIN x /\ x.t = "AppError"

\* if (!validation.isValid) throw new AppError(...); return validation.validatedRecipe
ValidatedOrError(validation) ==
    IF ~validation.isValid
    THEN AppError("Extracted recipe data is invalid", "EXTRACTION_ERROR", validation.errors)
    ELSE validation.validatedRecipe

\* RecipeExtractor.extractRecipe (both variants are the same) from the point
\* where extractRecipeFromHtml has settled with recipe or has thrown: the
\* validated recipe, or the AppError thrown
validateExtracted(recipe) ==
    IF recipe = Thrown
    THEN AppError("Failed to extract recipe", "EXTRACTION_ERROR", <<"TypeError">>)
    ELSE ValidatedOrError(validateRecipe(recipe))

-----------------------------------------------------------------------------
(* Pages handed to the extractor *)

\* how many properties of a JSON-LD record may differ from a base record
MaxLdDeviations == 1

\* the most list items of a kind a page of list items holds
MaxItems == 3

RECURSIVE ToDigits(_)
\* the decimal numeral of a natural number
ToDigits(n) ==
    IF n < 10 THEN SubSeq(DigitChars, n + 1, n + 1)
    ELSE ToDigits(n \div 10) \o SubSeq(DigitChars, (n % 10) + 1, (n % 10) + 1)

\* the values of a group of a duration; Absent: the group is not written
Absent == -1
Hours == {Absent, 0, 1, 2}
Minutes == {Absent, 0, 30, 45}

\* the ISO 8601 duration "PT<h>H<m>M"
Duration(h, m) ==
    "PT" \o (IF h = Absent THEN "" ELSE ToDigits(h) \o "H")
         \o (IF m = Absent THEN "" ELSE ToDigits(m) \o "M")

Durations == {Duration(h, m) : h \in Hours, m \in Minutes}

\* durations parseDuration finds no "PT" in, or no group after it
Unparseable == {"P1D", "45 minutes", "PT1.5H"}

HowToStep(k, text) == Obj(("@type" :> Str("HowToStep")) @@ (k :> Str(text)))

\* the JSON-LD record of the Pancakes page
Pancakes ==
    ("@type" :> Str("Recipe")) @@
    [name |-> Str("Pancakes"),
     recipeYield |-> Str("4 servings"),
     recipeIngredient |-> Arr(<<Str("1 cup flour"), Str("2 eggs")>>),
     recipeInstructions |-> Str("Mix. Cook.")]

\* the same recipe with its instructions as a list of steps
PancakesListed ==
    [Pancakes EXCEPT !.recipeInstructions =
        Arr(<<HowToStep("text", "Mix the flour and the eggs."),
              HowToStep("text", "Cook until golden.")>>)]

\* for a property of a JSON-LD record, the values it may hold instead; Unset:
\* the record does not hold the property
LdValues ==
    ("@type" :> {Arr(<<Str("Thing"), Str("recipe")>>), Str("Article")}) @@
    [name |-> {Unset, Num(7)},
     recipeYield |-> {Unset, Arr(<<Str("Serves 6"), Str("6")>>), Num(8), Str("a few")},
     prepTime |-> {Str(d) : d \in Durations \cup Unparseable} \cup {Num(20), Str("")},
     cookTime |-> {Str("PT0M"), Str("PT1H30M"), Str("soon"), Num(30)},
     image |-> {Str("https://example.com/p.jpg")},
     recipeIngredient |->
        {Unset, Arr(<<>>), Arr(<<Str("salt")>>), Arr(<<Str("")>>), Arr(<<Null>>),
         Arr(<<Str("2 cups flour"), Str("1/2 tsp salt"), Str("3 eggs")>>)},
     recipeInstructions |->
        {Unset, Num(5), Str("Stir"), Str("Mix.\nCook."),
         Str("1. Mix the batter. 2. Cook until golden."),
         Arr(<<>>), Arr(<<Str("Mix."), Str("Cook.")>>), Arr(<<Str("   ")>>),
         Arr(<<HowToStep("text", "Mix the <b>batter</b> well.")>>),
         Arr(<<HowToStep("name", "Stir"), HowToStep("image", "https://example.com/s.jpg")>>),
         Arr(<<HowToStep("image", "https://example.com/s.jpg")>>),
         Arr(<<Obj(("@type" :> Str("HowToSection")) @@
                   [itemListElement |-> Arr(<<HowToStep("text", "Whisk the eggs.")>>)])>>)}]

LdChoices == UNION { { <<k, v>> : v \in LdValues[k] } : k \in DOMAIN LdValues }

\* the record o with its property k set to v, or without it
With(o, k, v) ==
    IF v = Unset THEN [x \in DOMAIN o \ {k} |-> o[x]]
    ELSE [x \in DOMAIN o \cup {k} |-> IF x = k THEN v ELSE o[x]]

RECURSIVE LdDeviating(_)
\* the records that differ from a base record in at most n properties
LdDeviating(n) ==
    IF n = 0 THEN {Pancakes, PancakesListed}
    ELSE LET P == LdDeviating(n - 1)
         IN P \cup { With(o, kv[1], kv[2]) : o \in P, kv \in LdChoices }

LdRecords == LdDeviating(MaxLdDeviations)

\* the markup of a page whose content is its JSON-LD block
ShellBody ==
    "<html><head><title>Pancakes Recipe - Example Kitchen | Example</title></head>"
    \o "<body><div id=\"root\"></div></body></html>"

\* the characters the JSON-LD blocks add to the text of a page
ShortScript == 150
LongScript == 1200

\* the ways a page holds a JSON-LD record: alone, in a @graph, in an
\* array, after a block that does not parse, as the item of a list element
LdBlocks(o) ==
    { <<Obj(o)>>,
      <<Obj(("@graph" :> Arr(<<Obj(("@type" :> Str("WebSite"))), Obj(o)>>)))>>,
      <<Arr(<<Obj(o)>>)>>,
      <<Malformed, Obj(o)>>,
      <<Obj([itemListElement |-> Arr(<<Obj([item |-> Obj(o)])>>)])>> }

LdPages ==
    { [ld |-> <<Obj(o)>>, body |-> ShellBody, ldLength |-> ShortScript] : o \in LdRecords }
    \cup { [ld |-> b, body |-> ShellBody, ldLength |-> LongScript] :
           b \in UNION { LdBlocks(o) : o \in LdDeviating(0) \cup
                           { With(Pancakes, "recipeInstructions", v) : v \in {Unset, Str("Stir")} } } }

\* the texts of the list items of a page of list items
IngredientTexts == {"1 cup sugar", "salt"}
StepTexts == {"Preheat oven.", "Preheat the oven to 350 degrees.", "Stir.", "Bake 10 min."}

Item(class, text) == "<li class=\"" \o class \o "\">" \o text \o "</li>"

\* a page with no JSON-LD and no microdata: n ingredient items and m
\* instruction items, bare or inside lists
ItemsBody(ingredient, n, step, m, listed) ==
    "<html><head><title>Sugar Cookies</title></head><body>"
    \o (IF listed THEN "<ul>" ELSE "") \o Repeat(Item("ingredient-item", ingredient), n)
    \o (IF listed THEN "</ul><ol>" ELSE "") \o Repeat(Item("instruction", step), m)
    \o (IF listed THEN "</ol>" ELSE "") \o "</body></html>"

ItemPages ==
    { [ld |-> <<>>, body |-> ItemsBody(i, n, t, m, l), ldLength |-> 0] :
      i \in IngredientTexts, n \in 0..MaxItems, t \in StepTexts, m \in 0..(MaxItems - 1),
      l \in BOOLEAN }

\* pages of other shapes: microdata, a blog post, numbered paragraphs, none
OtherBodies ==
    { "",
      "<div itemscope><h2 itemprop=\"name\">Toast</h2>"
         \o "<span itemprop=\"recipeIngredient\">2 slices bread</span>"
         \o "<div itemprop=\"recipeInstructions\">Toast the bread until golden.</div></div>",
      "<div itemscope><meta itemprop='name' content='Toast'>"
         \o "<span itemprop='ingredients'>2 slices bread</span></div>",
      "<h1 class=\"recipe-title\">Pancakes</h1><h2>Ingredients</h2><ul><li>2 cups flour</li>"
         \o "<li>Print</li></ul><h3>Method</h3><ol><li>Mix the flour and the eggs.</li>"
         \o "<li>Cook until golden brown.</li></ol>",
      "<p><strong>Ingredients</strong></p><p>2 cups flour</p>"
         \o "<p>1. Mix the flour and the eggs.</p><p>Step 2: Bake until golden brown.</p>" }

OtherPages ==
    { [ld |-> b, body |-> h, ldLength |-> ShortScript] :
      h \in OtherBodies,
      b \in { <<>>, <<Obj(With(Pancakes, "recipeInstructions", Unset))>>,
              <<Obj(With(With(Pancakes, "recipeInstructions", Unset), "name", Num(7)))>> } }

Pages == LdPages \cup ItemPages \cup OtherPages

ExampleUrl == "https://example.com/pancakes"

Calls == [variant : Variants, url : {Str(ExampleUrl)}]

InitExtract ==
    /\ fn \in {"extractFromJsonLd", "extractRecipe"}
    /\ arg \in Calls
    /\ html \in Pages
    /\ pc = "start"
    /\ ret = Undefined
    /\ net = <<>>
    /\ ocr = Undefined
    /\ localStorage = Undefined
    /\ db = Undefined

\* one call of RecipeExtractor.extractFromJsonLd on the page
ExtractFromJsonLd ==
    /\ fn = "extractFromJsonLd"
    /\ pc = "start"
    /\ ret' = extractFromJsonLd(arg.variant, html.ld)
    /\ pc' = "done"
    /\ UNCHANGED <<fn, arg, html, net, ocr, localStorage, db>>

\* extractRecipe, fetchWebpage having settled with the page: the call of
\* extractRecipeFromHtml it awaits
ExtractRecipeFromHtml ==
    /\ fn = "extractRecipe"
    /\ pc = "start"
    /\ ret' = extractRecipeFromHtml(arg.variant, html, arg.url)
    /\ pc' = "extracted"
    /\ UNCHANGED <<fn, arg, html, net, ocr, localStorage, db>>

\* extractRecipe resumed: the candidate is validated and returned, or an
\* AppError is thrown
ValidateExtracted ==
    /\ fn = "extractRecipe"
    /\ pc = "extracted"
    /\ ret' = validateExtracted(ret)
    /\ pc' = "done"
    /\ UNCHANGED <<fn, arg, html, net, ocr, localStorage, db>>

NextExtract == ExtractFromJsonLd \/ ExtractRecipeFromHtml \/ ValidateExtracted

SpecExtract == InitExtract /\ [][NextExtract]_vars

-----------------------------------------------------------------------------
(* Claims about the extractor, checked under SpecExtract *)

Extracted == fn = "extractRecipe" /\ pc = "extracted"

\* C2 (as claimed): in both versions the candidate extractRecipeFromHtml
\* returns has at least one ingredient and at least one step, a field no
\* strategy could fill holding the placeholder entry.  Violated: the
\* older version returns the JSON-LD record as soon as it has ingredients or
\* steps, the other list left empty.
C2_ExtractedListsNeverEmpty ==
    (Extracted /\ ret # Thrown)
        => Len(ret.ingredients.v) >= 1 /\ Len(ret.steps.v) >= 1

\* the JSON-LD record of a page that states it once: alone, in a @graph, in
\* an array or as the item of a list element
StatedRecords(page) ==
    LET block == page.ld[1]
    IN IF Len(page.ld) # 1 THEN {}
       ELSE IF IsArr(block) THEN {block.v[1].v}
       ELSE IF "@graph" \in DOMAIN block.v THEN {block.v["@graph"].v[2].v}
       ELSE IF "itemListElement" \in DOMAIN block.v
       THEN {block.v.itemListElement.v[1].v.item.v}
       ELSE {block.v}

\* a record of type Recipe with a non-empty recipeIngredient list of strings,
\* non-empty recipeInstructions (a string or a list) and durations that are
\* strings
ValidRecipeRecord(o) ==
    LET has(k) == k \in DOMAIN o
    IN /\ o["@type"] \in {Str("Recipe"), Arr(<<Str("Thing"), Str("recipe")>>)}
       /\ has("recipeIngredient") /\ IsArr(o.recipeIngredient)
       /\ Len(o.recipeIngredient.v) > 0
       /\ \A i \in 1..Len(o.recipeIngredient.v) : IsStr(o.recipeIngredient.v[i])
       /\ has("recipeInstructions")
       /\ (IsStr(o.recipeInstructions) \/ IsArr(o.recipeInstructions))
       /\ Len(o.recipeInstructions.v) > 0
       /\ \A k \in {"prepTime", "cookTime"} : has(k) => IsStr(o[k])

NoStepText ==
    { Str("Stir"), Str("Mix.\nCook."), Arr(<<Str("   ")>>),
      Arr(<<HowToStep("image", "https://example.com/s.jpg")>>) }

PancakesPage == [ld |-> <<Obj(Pancakes)>>, body |-> ShellBody, ldLength |-> ShortScript]

\* C4 (as claimed): for the Pancakes page fetched from a valid URL,
\* extractRecipe returns a validated recipe with title "Pancakes", servings
\* 4, two ingredients and the two steps "Mix." and "Cook.".  Violated in both
\* versions.
C4_PancakesValidated ==
    (fn = "extractRecipe" /\ pc = "done" /\ html = PancakesPage)
        => /\ ~IsAppError(ret)
           /\ ret.title = "Pancakes"
           /\ ret.servings = 4
           /\ Len(ret.ingredients) = 2
           /\ ret.steps = <<"Mix.", "Cook.">>

\* the page of C5: three ingredient items, two instruction items
SugarPage(step, listed) ==
    [ld |-> <<>>, body |-> ItemsBody("1 cup sugar", 3, step, 2, listed), ldLength |-> 0]

\* C5 (as claimed): for markup with no JSON-LD and no microdata that holds
\* <li class="ingredient-item">1 cup sugar</li> three times and
\* <li class="instruction">Preheat oven.</li> twice, the recipe has three
\* ingredients and the two steps "Preheat oven.".  Violated in the current
\* version.
C5_CascadeFindsBothSteps ==
    (Extracted /\ \E l \in BOOLEAN : html = SugarPage("Preheat oven.", l))
        => /\ Len(ret.ingredients.v) = 3
           /\ ret.steps = Arr(<<Str("Preheat oven."), Str("Preheat oven.")>>)

\* C5 (amended): for such markup with any instruction text, the recipe has
\* the three ingredients {1, cup, sugar}; its steps are the two instruction
\* texts when the text is longer than 15 characters (10 in the older
\* version), and otherwise the one placeholder entry.
C5_CascadeKeepsLongSteps ==
    Extracted
        => \A t \in StepTexts, l \in BOOLEAN :
              html = SugarPage(t, l)
                  => /\ ret.ingredients = Arr(<<Ing("1", "cup", "sugar"), Ing("1", "cup", "sugar"),
                                               Ing("1", "cup", "sugar")>>)
                     /\ ret.steps =
                           IF Len(t) > (IF arg.variant = "current" THEN 15 ELSE 10)
                           THEN Arr(<<Str(t), Str(t)>>)
                           ELSE Arr(<<Str("Could not extract instructions"
                                          \o (IF arg.variant = "current"
                                              THEN RequiresJavaScript ELSE CheckOriginal))>>)

C5_Witness ==
    /\ Extracted /\ arg.variant = "current"
    /\ html = SugarPage("Preheat oven.", FALSE)
    /\ Len(ret.ingredients.v) = 3
    /\ ret.steps = Arr(<<Str("Could not extract instructions" \o RequiresJavaScript)>>)

\* the pages whose JSON-LD block is PancakesListed with the duration k
\* set to d
TimedPage(k, d) ==
    [ld |-> <<Obj(With(PancakesListed, k, d))>>, body |-> ShellBody, ldLength |-> ShortScript]

\* the rest of the record PancakesListed is used
RestUsed ==
    /\ ret # Thrown
    /\ ret.title = Str("Pancakes")
    /\ Len(ret.ingredients.v) = 2
    /\ Len(ret.steps.v) = 2

\* C10 (as claimed): a duration "PT<h>H<m>M", either group optional, is
\* projected to 60 * h + m minutes; a duration that is absent, has neither
\* group or cannot be parsed leaves prepTime at its default, and the rest
\* of the record is still used.  Violated: zero minutes, and a duration that
\* is a number.
C10_DurationProjected ==
    Extracted
        => /\ \A h \in Hours, m \in Minutes :
                 (html = TimedPage("prepTime", Str(Duration(h, m))) /\ <<h, m>> # <<Absent, Absent>>)
                     => /\ RestUsed
                        /\ ret.prepTime = Num(60 * (IF h = Absent THEN 0 ELSE h)
                                              + (IF m = Absent THEN 0 ELSE m))
           /\ \A d \in {Unset, Str("PT"), Num(20)} \cup {Str(u) : u \in Unparseable} :
                 html = TimedPage("prepTime", d)
                     => RestUsed /\ ret.prepTime = Num(DEFAULT_PREP_TIME)
           /\ html = TimedPage("cookTime", Str("PT1H30M"))
                 => RestUsed /\ ret.cookTime = Num(90)
           /\ \A d \in {Unset, Str("soon"), Num(30)} :
                 html = TimedPage("cookTime", d)
                     => RestUsed /\ ret.cookTime = Num(DEFAULT_COOK_TIME)

\* ingredient lines: an optional amount, an optional unit and an item
LineAmounts == {"", "2", "1/2", "1.5", "2-3"}
LineUnits == {"", "cups", "tbsp", "g"}
LineItems == {"flour", "salt", "olive oil", "eggs"}

Spaced(a, b) == IF a = "" THEN b ELSE a \o " " \o b

IngredientLines == {Spaced(a, Spaced(u, i)) : a \in LineAmounts, u \in LineUnits, i \in LineItems}

InitIngredient ==
    /\ fn \in {"parseIngredients", "parseIngredientText", "parseIngredientLine"}
    /\ arg \in IngredientLines
    /\ pc = "start"
    /\ html = NoHtml
    /\ ret = Undefined
    /\ net = <<>>
    /\ ocr = Undefined
    /\ localStorage = Undefined
    /\ db = Undefined

\* parseIngredients([line])[0]
ParseIngredients ==
    /\ fn = "parseIngredients"
    /\ pc = "start"
    /\ ret' = parseIngredients(Arr(<<Str(arg)>>)).v[1]
    /\ pc' = "done"
    /\ UNCHANGED <<fn, arg, html, net, ocr, localStorage, db>>

\* parseIngredientText(line)
ParseIngredientText ==
    /\ fn = "parseIngredientText"
    /\ pc = "start"
    /\ ret' = parseIngredientText(arg)
    /\ pc' = "done"
    /\ UNCHANGED <<fn, arg, html, net, ocr, localStorage, db>>

\* parseIngredientLine(line)
ParseIngredientLine ==
    /\ fn = "parseIngredientLine"
    /\ pc = "start"
    /\ ret' = parseIngredientLine(arg)
    /\ pc' = "done"
    /\ UNCHANGED <<fn, arg, html, net, ocr, localStorage, db>>

NextIngredient == ParseIngredients \/ ParseIngredientText \/ ParseIngredientLine

SpecIngredient == InitIngredient /\ [][NextIngredient]_vars

\* C9: on each of the three paths "2 cups flour" becomes amount "2", unit
\* "cups", item "flour", and a one-word line without a quantity, such as
\* "salt", becomes the item in its entirety with empty amount and unit.
C9_IngredientLineNormalized ==
    (fn \in {"parseIngredients", "parseIngredientText", "parseIngredientLine"} /\ pc = "done")
        => /\ arg = "2 cups flour" => ret = Ing("2", "cups", "flour")
           /\ arg \in {"salt", "flour", "eggs"} => ret = Ing("", "", arg)

-----------------------------------------------------------------------------
(* The boilerplate classifier *)

\* the words and phrases the patterns of isBoilerplateText list
CallToActionWords ==
    {"advertisement", "sponsored", "subscribe", "sign up", "log in", "print", "share", "save",
     "pin", "email"}
NavigationPhrases == {"jump to", "skip to", "view", "see", "read more", "click", "tap"}
NutritionPhrases == {"nutrition", "calories", "serving size"}
CountedWords == {"comment", "comments", "review", "reviews", "rating", "ratings"}

\* what follows a listed word in a fragment
Endings == {"", " this recipe", "s", "ch of salt"}

\* the first letter of a text in upper case
Capitalized(text) ==
    IF text = "" \/ ~IsLower(Char(text, 1)) THEN text
    ELSE LET k == CHOOSE k \in 1..Len(LowerChars) : SubSeq(LowerChars, k, k) = Char(text, 1)
         IN SubSeq(UpperChars, k, k) \o From(text, 2)

\* an ingredient of exactly n characters
LongIngredient(n) == "2 tbsp olive oil" \o Repeat(",", n - 16)

\* the fragments handed to the classifier
TextFragments ==
    {w \o e : w \in CallToActionWords \cup NavigationPhrases \cup NutritionPhrases, e \in Endings}
    \cup {Capitalized(w) : w \in CallToActionWords \cup NavigationPhrases}
    \cup {n \o s \o w : n \in {"3", "12"}, s \in {"", " "}, w \in CountedWords \cup {"cups flour"}}
    \cup {"2 tbsp olive oil", "pineapple chunks", "seeds", "tapioca", "comments", "",
          "Mix the flour and the eggs."}
    \cup {LongIngredient(n) : n \in {MaxTextLength - 1, MaxTextLength, MaxTextLength + 1, 600}}

InitBoilerplate ==
    /\ fn = "isBoilerplateText"
    /\ arg \in TextFragments
    /\ pc = "start"
    /\ html = NoHtml
    /\ ret = Undefined
    /\ net = <<>>
    /\ ocr = Undefined
    /\ localStorage = Undefined
    /\ db = Undefined

\* isBoilerplateText(text)
IsBoilerplateText ==
    /\ fn = "isBoilerplateText"
    /\ pc = "start"
    /\ ret' = isBoilerplateText(arg)
    /\ pc' = "done"
    /\ UNCHANGED <<fn, arg, html, net, ocr, localStorage, db>>

NextBoilerplate == IsBoilerplateText

SpecBoilerplate == InitBoilerplate /\ [][NextBoilerplate]_vars

\* the word w stands at index i of the text and ends there
WordAt(text, i, w) ==
    HasAt(text, i, w) /\ (i + Len(w) > Len(text) \/ ~IsWordChar(Char(text, i + Len(w))))

\* the fragment leads with one of the listed words or phrases
LeadsWithListed(lower) ==
    \E w \in CallToActionWords \cup NavigationPhrases \cup NutritionPhrases : WordAt(lower, 1, w)

\* the fragment leads with a count of comments, reviews or ratings
LeadsWithCount(lower) ==
    LET e == RunEnd(lower, 1, DigitSet)
    IN e >= 1 /\ \E w \in CountedWords : WordAt(lower, SkipSpaces(lower, e + 1), w)

\* C11: isBoilerplateText is true exactly for the fragments whose leading
\* word or phrase is a listed call-to-action word, navigation phrase or
\* nutrition phrase, that lead with a count of comments, reviews or ratings,
\* or that are longer than 500 characters, and false for every other one.
\* Violated: the patterns match a listed word as a prefix of a longer word,
\* so "pinch of salt" (pin) and "seeds" (see) are taken for boilerplate.
C11_BoilerplateExactlyListed ==
    (fn = "isBoilerplateText" /\ pc = "done")
        => (ret <=> \/ LeadsWithListed(toLowerCase(arg))
                    \/ LeadsWithCount(toLowerCase(arg))
                    \/ Len(arg) > MaxTextLength)

-----------------------------------------------------------------------------
(* Documents with several JSON-LD script blocks *)

\* the most script blocks of a document
MaxBlocks == 3

\* the contents a script block may have: text JSON.parse rejects, the JSON
\* null (the search throws), a record that is no recipe, a recipe whose
\* projection throws (a numeric duration), and recipes (the projection of
\* the first of them throws in the older version)
BlockContents ==
    { Malformed, Null,
      Obj(("@type" :> Str("WebSite"))),
      Obj(With(PancakesListed, "prepTime", Num(20))),
      Obj(Pancakes), Obj(PancakesListed) }

RECURSIVE BlocksUpTo(_)
\* the sequences of at most n script blocks
BlocksUpTo(n) ==
    IF n = 0 THEN {<<>>}
    ELSE LET shorter == BlocksUpTo(n - 1)
         IN shorter \cup {Append(bs, b) : bs \in shorter, b \in BlockContents}

BlockPages == { [ld |-> bs, body |-> "", ldLength |-> ShortScript] : bs \in BlocksUpTo(MaxBlocks) }

InitJsonLd ==
    /\ fn = "extractFromJsonLd"
    /\ arg \in Calls
    /\ html \in BlockPages
    /\ pc = "start"
    /\ ret = Undefined
    /\ net = <<>>
    /\ ocr = Undefined
    /\ localStorage = Undefined
    /\ db = Undefined

NextJsonLd == ExtractFromJsonLd

SpecJsonLd == InitJsonLd /\ [][NextJsonLd]_vars

\* what a script block yields on its own: the projection of its recipe, or
\* Null if it does not parse, holds no recipe, or the search or the
\* projection throws
BlockYield(variant, block) ==
    IF block = Malformed THEN Null
    ELSE LET recipeData == findRecipeInJsonLd(block)
         IN IF recipeData = Thrown \/ ~Truthy(recipeData) THEN Null
            ELSE LET recipe == parseJsonLdRecipe(variant, recipeData)
                 IN IF recipe = Thrown THEN Null ELSE recipe

\* the indices of the blocks of the page that yield a recipe
YieldingBlocks == {i \in 1..Len(html.ld) : BlockYield(arg.variant, html.ld[i]) # Null}

\* C12: a script block that does not parse, or whose content makes the
\* search or the projection throw, never makes extractFromJsonLd throw and
\* never ends the scan: the projection of the first block in document order
\* that yields a recipe is returned, and null only if no block yields one.
C12_FailedBlockIsSkipped ==
    (fn = "extractFromJsonLd" /\ pc = "done" /\ html \in BlockPages)
        => /\ ret # Thrown
           /\ ret = IF YieldingBlocks = {} THEN Null
                    ELSE BlockYield(arg.variant, html.ld[Least(YieldingBlocks)])

\* the recipe of the third block is returned after a block that does not
\* parse and a block on which the search throws
C12_Witness ==
    /\ fn = "extractFromJsonLd" /\ pc = "done"
    /\ html.ld = <<Malformed, Null, Obj(PancakesListed)>>
    /\ ret # Null /\ ret # Thrown
    /\ ret.title = Str("Pancakes")
    /\ Len(ret.steps.v) = 2

-----------------------------------------------------------------------------
(* extractRecipe and the webpage-fetch collaborator *)

\* CONFIG.ALLORIGINS_URL
ALLORIGINS_URL == "/api/proxy.php?url="

UpperHexChars == "0123456789ABCDEF"

\* the escape of a character encodeURIComponent does not leave as it is
PercentEncoded(c) ==
    LET code == FirstAt(AsciiChars, c, 1, Len(AsciiChars)) - 1 + FirstAsciiCode
    IN "%" \o Char(UpperHexChars, (code \div 16) + 1) \o Char(UpperHexChars, (code % 16) + 1)

RECURSIVE encodeURIComponent(_)
\* encodeURIComponent(url) of a text of ASCII characters
encodeURIComponent(s) ==
    IF s = "" THEN ""
    ELSE (IF IsAlpha(Char(s, 1)) \/ IsDigit(Char(s, 1))
             \/ Char(s, 1) \in {"-", "_", ".", "!", "~", "*", "'", "(", ")"}
          THEN Char(s, 1) ELSE PercentEncoded(Char(s, 1)))
         \o encodeURIComponent(From(s, 2))

\* the request fetchWebpage issues
proxyUrl(url) == ALLORIGINS_URL \o encodeURIComponent(url)

\* a fetch, or the read of a body, that rejects
Rejection(message) == [t |-> "TypeError", message |-> message]

IsRejection(x) == "t" \in DOMAIN x /\ x.t = "TypeError"

\* the response of the proxy
Response(ok, status, statusText, body) ==
    [ok |-> ok, status |-> status, statusText |-> statusText, body |-> body]

\* the message of a rejection, or the default of fetchWebpage
NetworkErrorMessage(variant, error) ==
    IF variant = "older" THEN "Network error while fetching webpage"
    ELSE "Network error: "
         \o (IF error.message # "" THEN error.message ELSE "Check your Internet connection")

\* errorMsg of fetchWebpage for a response that is not ok: errorData is what
\* response.json() gives, Malformed if it rejects
FetchErrorMessage(variant, response, errorData) ==
    IF variant = "older" \/ errorData = Malformed \/ Nullish(errorData)
    THEN ToDigits(response.status) \o " " \o response.statusText
    ELSE IF Truthy(Get(errorData, "error")) THEN Get(errorData, "error").v
    ELSE "HTTP " \o ToDigits(response.status)

\* RecipeExtractor.fetchWebpage once fetch has settled with response: the
\* text of the page, or the AppError thrown
fetchWebpage(variant, response) ==
    IF IsRejection(response)
    THEN AppError(NetworkErrorMessage(variant, response), "NETWORK_ERROR", response)
    ELSE IF ~response.ok
    THEN AppError("Failed to fetch webpage: "
                     \o FetchErrorMessage(variant, response, response.body),
                  "NETWORK_ERROR", Null)
    ELSE IF IsRejection(response.body)
    THEN AppError(NetworkErrorMessage(variant, response.body), "NETWORK_ERROR", response.body)
    ELSE response.body

\* the addresses handed to extractRecipe
FetchUrls == {ExampleUrl, "https://example.com/cookies?id=1", "http://example.org/a b"}

FetchCalls == [variant : Variants, url : {Str(u) : u \in FetchUrls}]

EmptyPage == [ld |-> <<>>, body |-> "", ldLength |-> 0]

\* the pages the proxy answers with
FetchedPages == {PancakesPage, SugarPage("Preheat the oven to 350 degrees.", TRUE), EmptyPage}

\* what fetch may settle with: a page, a response whose body cannot be read,
\* a response that is not ok (its body a JSON object with or without an
\* error, or no JSON), a rejection
Responses ==
    {Response(TRUE, 200, "OK", p) : p \in FetchedPages}
    \cup {Response(TRUE, 200, "OK", Rejection("The network connection was lost."))}
    \cup {Response(FALSE, st[1], st[2], b) :
            st \in {<<404, "Not Found">>, <<502, "Bad Gateway">>},
            b \in {Obj([error |-> Str("Upstream timed out")]), Obj(<<>>), Malformed}}
    \cup {Rejection("Failed to fetch"), Rejection("")}

InitFetch ==
    /\ fn = "extractRecipe"
    /\ arg \in FetchCalls
    /\ pc = "call"
    /\ html = Undefined
    /\ ret = Undefined
    /\ net = <<>>
    /\ ocr = Undefined
    /\ localStorage = Undefined
    /\ db = Undefined

\* extractRecipe if fetchWebpage tried the fetch a second time
FetchWebpage_Twice ==
    /\ fn = "extractRecipe"
    /\ pc = "call"
    /\ net' = <<proxyUrl(arg.url.v), proxyUrl(arg.url.v)>>
    /\ pc' = "fetching"
    /\ UNCHANGED <<fn, arg, html, ret, ocr, localStorage, db>>

\* extractRecipe(url) up to the fetch that fetchWebpage awaits
FetchWebpage ==
    /\ fn = "extractRecipe"
    /\ pc = "call"
    /\ net' = Append(net, proxyUrl(arg.url.v))
    /\ pc' = "fetching"
    /\ UNCHANGED <<fn, arg, html, ret, ocr, localStorage, db>>

\* fetch settles and fetchWebpage runs to its end: extractRecipe goes on with
\* the page (html), or rethrows the AppError of fetchWebpage (html then holds
\* what fetch settled with)
FetchSettles ==
    /\ fn = "extractRecipe"
    /\ pc = "fetching"
    /\ \E response \in Responses :
          IF IsAppError(fetchWebpage(arg.variant, response))
          THEN /\ ret' = fetchWebpage(arg.variant, response)
               /\ html' = response
               /\ pc' = "done"
          ELSE /\ html' = fetchWebpage(arg.variant, response)
               /\ pc' = "start"
               /\ UNCHANGED ret
    /\ UNCHANGED <<fn, arg, net, ocr, localStorage, db>>

NextFetch == FetchWebpage \/ FetchSettles \/ ExtractRecipeFromHtml \/ ValidateExtracted

SpecFetch == InitFetch /\ [][NextFetch]_vars

\* extractRecipe has ended without a page: the fetch has failed
FetchFailed == fn = "extractRecipe" /\ pc = "done" /\ "ld" \notin DOMAIN html

\* C13 (as claimed): when the fetch fails (a response that is not ok, or a
\* rejected request) extractRecipe fails with an error of type
\* EXTRACTION_ERROR.  Violated: the AppError of fetchWebpage, of type
\* NETWORK_ERROR, is rethrown as it is.
C13_FetchFailureIsExtractionError ==
    FetchFailed => (IsAppError(ret) /\ ret.type = "EXTRACTION_ERROR")

\* C14: every call of extractRecipe issues the fetch exactly once, the one
\* for its url, whether it succeeds or fails, and once the fetch has failed
\* no further step of the call runs: neither extraction nor validation.
C14_FetchedExactlyOnce ==
    /\ [](fn = "extractRecipe"
             => net = IF pc = "call" THEN <<>> ELSE <<proxyUrl(arg.url.v)>>)
    /\ [][~FetchFailed]_vars

\* a call that has ended with a failed fetch, after one request
C14_Witness ==
    /\ FetchFailed /\ IsAppError(ret)
    /\ html \in {Response(FALSE, 502, "Bad Gateway", Malformed)}
    /\ net = <<proxyUrl(arg.url.v)>>

-----------------------------------------------------------------------------
(* Two calls of extractRecipe on one RecipeExtractor *)

\* The calls run on one thread and give way to each other where they await.
\* RecipeExtractor has no constructor and assigns no field: what a call holds
\* (htmlContent, recipe, validation) is local to it.  Here arg, pc, html and
\* ret hold, for each call, what they hold for a single call.
CallIds == {1, 2}

CookiesPage == SugarPage("Preheat the oven to 350 degrees.", TRUE)

InitConcurrent ==
    /\ fn = "extractRecipe"
    /\ \E variant \in Variants :
          arg = << [variant |-> variant, url |-> Str(ExampleUrl)],
                   [variant |-> variant, url |-> Str("https://example.com/cookies?id=1")] >>
    /\ pc = <<"call", "call">>
    /\ html = <<Undefined, Undefined>>
    /\ ret = <<Undefined, Undefined>>
    /\ net = <<>>
    /\ ocr = Undefined
    /\ localStorage = Undefined
    /\ db = Undefined

\* call c up to the fetch that fetchWebpage awaits
ConcurrentFetchWebpage(c) ==
    /\ pc[c] = "call"
    /\ net' = Append(net, proxyUrl(arg[c].url.v))
    /\ pc' = [pc EXCEPT ![c] = "fetching"]
    /\ UNCHANGED <<fn, arg, html, ret, ocr, localStorage, db>>

\* the fetch of call c settles and its fetchWebpage runs to its end
ConcurrentFetchSettles(c) ==
    /\ pc[c] = "fetching"
    /\ \E response \in Responses :
          IF IsAppError(fetchWebpage(arg[c].variant, response))
          THEN /\ ret' = [ret EXCEPT ![c] = fetchWebpage(arg[c].variant, response)]
               /\ html' = [html EXCEPT ![c] = response]
               /\ pc' = [pc EXCEPT ![c] = "done"]
          ELSE /\ html' = [html EXCEPT ![c] = fetchWebpage(arg[c].variant, response)]
               /\ pc' = [pc EXCEPT ![c] = "start"]
               /\ UNCHANGED ret
    /\ UNCHANGED <<fn, arg, net, ocr, localStorage, db>>

\* call c if the candidate recipe were a field of the extractor: the
\* candidate of every call is overwritten
ConcurrentExtractRecipeFromHtml_SharedRecipe(c) ==
    /\ pc[c] = "start"
    /\ ret' = [d \in CallIds |-> extractRecipeFromHtml(arg[c].variant, html[c], arg[c].url)]
    /\ pc' = [pc EXCEPT ![c] = "extracted"]
    /\ UNCHANGED <<fn, arg, html, net, ocr, localStorage, db>>

\* call c goes on with its page: the extractRecipeFromHtml it awaits
ConcurrentExtractRecipeFromHtml(c) ==
    /\ pc[c] = "start"
    /\ ret' = [ret EXCEPT ![c] = extractRecipeFromHtml(arg[c].variant, html[c], arg[c].url)]
    /\ pc' = [pc EXCEPT ![c] = "extracted"]
    /\ UNCHANGED <<fn, arg, html, net, ocr, localStorage, db>>

\* call c resumed: its candidate is validated and returned, or an AppError
\* is thrown
ConcurrentValidateExtracted(c) ==
    /\ pc[c] = "extracted"
    /\ ret' = [ret EXCEPT ![c] = validateExtracted(ret[c])]
    /\ pc' = [pc EXCEPT ![c] = "done"]
    /\ UNCHANGED <<fn, arg, html, net, ocr, localStorage, db>>

NextConcurrent ==
    \E c \in CallIds :
        \/ ConcurrentFetchWebpage(c)
        \/ ConcurrentFetchSettles(c)
        \/ ConcurrentExtractRecipeFromHtml(c)
        \/ ConcurrentValidateExtracted(c)

SpecConcurrent == InitConcurrent /\ [][NextConcurrent]_vars

\* what a call returns or throws when it runs alone and its fetch settles
\* with settled: a page, or a response that makes fetchWebpage throw
Alone(call, settled) ==
    IF "ld" \in DOMAIN settled
    THEN validateExtracted(extractRecipeFromHtml(call.variant, settled, call.url))
    ELSE fetchWebpage(call.variant, settled)

\* C19: however two concurrent calls of extractRecipe interleave, each ends
\* with exactly the result or the error it produces when it runs alone on
\* what its fetch settled with, and a step of one call leaves what the other
\* call holds as it is.
C19_ConcurrentCallsIndependent ==
    /\ [](\A c \in CallIds : pc[c] = "done" => ret[c] = Alone(arg[c], html[c]))
    /\ [][\A c \in CallIds :
            pc'[c] # pc[c]
                => \A d \in CallIds \ {c} :
                      <<arg'[d], pc'[d], html'[d], ret'[d]>> = <<arg[d], pc[d], html[d], ret[d]>>]_vars

\* both calls have ended, one with the recipe of its page and one with the
\* error of its fetch
C19_Witness ==
    /\ pc = <<"done", "done">>
    /\ "ld" \in DOMAIN html[1] /\ html[1].body = PancakesPage.body
    /\ ~IsAppError(ret[1])
    /\ IsRejection(html[2])
    /\ IsAppError(ret[2])

-----------------------------------------------------------------------------
(* OCRProcessor: text extraction and recipe synthesis *)

OPENAI_URL == "https://api.openai.com/v1/chat/completions"

\* script.src of loadPDFJS
PDFJS_URL == "https://cdnjs.cloudflare.com/ajax/libs/pdf.js/3.11.174/pdf.min.js"

\* !CONFIG.OPENAI_API_KEY || CONFIG.OPENAI_API_KEY === 'YOUR_OPENAI_API_KEY_HERE'
KeyNotConfigured(key) == ~Truthy(key) \/ key.v = "YOUR_OPENAI_API_KEY_HERE"

\* the AppError of the key check; feature is "OCR" in extractTextFromImage
\* and parseRecipeText, "recipe parsing" in parseTextToRecipe
KeyError(feature) ==
    AppError("OpenAI API key not configured. Add your OpenAI API key to config.local.js to enable "
                 \o feature \o ".",
             "API_ERROR", Undefined)

\* error.message; the text of an error the engine raises is the engine's
MessageOf(error) ==
    IF "message" \in DOMAIN error THEN error.message
    ELSE IF error = Malformed THEN "Unexpected token in JSON"
    ELSE "Cannot read properties of undefined"

\* new AppError(`${prefix}: ${error.message}`, type, { originalError: error })
WrappedError(prefix, error, type) ==
    AppError(prefix \o ": " \o MessageOf(error), type, error)

\* data.choices[0]?.message?.content; Thrown where data.choices cannot be read
ChoiceContent(data) ==
    IF Nullish(data) \/ ~IsArr(Get(data, "choices")) THEN Thrown
    ELSE IF Len(Get(data, "choices").v) = 0 THEN Undefined
    ELSE IF Nullish(Get(data, "choices").v[1]) THEN Undefined
    ELSE IF Nullish(Get(Get(data, "choices").v[1], "message")) THEN Undefined
    ELSE Get(Get(Get(data, "choices").v[1], "message"), "content")

\* the body of a response of the API that carries content
Completion(content) ==
    Obj([choices |-> Arr(<<Obj([message |-> Obj([content |-> content])])>>)])

\* the lines from "if (!response.ok)" to "const data = await response.json()"
\* that the three callers of the API share: the AppError or the error thrown
\* for a response that is not ok or whose body is no JSON, else the content
\* (Thrown where it cannot be read)
ContentOrError(response) ==
    IF IsRejection(response) THEN response
    ELSE IF response.body = Malformed THEN Malformed
    ELSE IF ~response.ok
    THEN (IF Nullish(response.body) THEN Thrown
          ELSE AppError("OpenAI API error: "
                            \o (IF ~Nullish(Get(response.body, "error"))
                                   /\ Truthy(Get(Get(response.body, "error"), "message"))
                                THEN Get(Get(response.body, "error"), "message").v
                                ELSE response.statusText),
                        "API_ERROR", response))
    ELSE ChoiceContent(response.body)

\* an error that is no AppError: a rejected fetch, a SyntaxError, a TypeError
IsNativeError(x) == x.t \in {"TypeError", "SyntaxError"}

\* OCRProcessor.extractTextFromImage once the key check has passed and fetch
\* has settled with response, content being ContentOrError(response)
TextOfContent(content) ==
    IF IsAppError(content) THEN content
    ELSE IF IsNativeError(content)
    THEN WrappedError("Failed to extract text from image", content, "API_ERROR")
    ELSE IF ~Truthy(content)
    THEN AppError("No text extracted from image", "EXTRACTION_ERROR", Undefined)
    ELSE content

extractTextFromImage(response) == TextOfContent(ContentOrError(response))

\* extractedText.trim().length < 50
MIN_PDF_TEXT_LENGTH == 50

\* Math.min(pdf.numPages, 5)
MAX_OCR_PAGES == 5

\* texts the completion collaborator answers with
FullJson ==
    "{\"title\":\"Pancakes\",\"servings\":2,\"prepTime\":10,\"cookTime\":20,"
    \o "\"ingredients\":[{\"amount\":\"1\",\"unit\":\"cup\",\"item\":\"flour\"},\"2 eggs\"],"
    \o "\"steps\":[\"Mix the batter.\",\"Cook.\"]}"
BareJson == "{\"title\":\"Pancakes\",\"ingredients\":[\"2 eggs\"],\"steps\":[\"Cook.\"]}"
ZeroJson == "{\"servings\":0,\"prepTime\":\"soon\",\"cookTime\":null,\"steps\":\"Cook.\"}"
EmptyJson == "{}"
NullJson == "null"
ProseJson == "Here is the recipe you asked for:\n" \o BareJson

\* JSON.parse(text) for the texts above: the value, Malformed for the
\* SyntaxError thrown on a text that is no JSON
JSONparse(text) ==
    CASE text = FullJson ->
           Obj([title |-> Str("Pancakes"), servings |-> Num(2),
                prepTime |-> Num(10), cookTime |-> Num(20),
                ingredients |-> Arr(<<Obj([amount |-> Str("1"), unit |-> Str("cup"),
                                           item |-> Str("flour")]),
                                      Str("2 eggs")>>),
                steps |-> Arr(<<Str("Mix the batter."), Str("Cook.")>>)])
      [] text = BareJson ->
           Obj([title |-> Str("Pancakes"), ingredients |-> Arr(<<Str("2 eggs")>>),
                steps |-> Arr(<<Str("Cook.")>>)])
      [] text = ZeroJson ->
           Obj([servings |-> Num(0), prepTime |-> Str("soon"), cookTime |-> Null,
                steps |-> Str("Cook.")])
      [] text = EmptyJson -> Obj(<<>>)
      [] text = NullJson -> Null
      [] OTHER -> Malformed

\* x || fallback
Either(x, fallback) == IF Truthy(x) THEN x ELSE fallback

\* Array.isArray(x) ? x : []
ArrayOrEmpty(x) == IF IsArr(x) THEN x.v ELSE <<>>

\* the callback of recipe.ingredients.map in parseRecipeText; Thrown for an
\* element whose properties cannot be read
NormalizedIngredient(ingredient) ==
    IF IsStr(ingredient) THEN parseIngredientLine(ingredient.v)
    ELSE IF Nullish(ingredient) THEN Thrown
    ELSE [amount |-> Either(Get(ingredient, "amount"), Str("")),
          unit |-> Either(Get(ingredient, "unit"), Str("")),
          item |-> Either(Get(ingredient, "item"), ingredient)]

\* OCRProcessor.fallbackParseRecipeText (recipeId, made of the clock and of
\* Math.random, is left out here and below)
fallbackParseRecipeText(extractedText) ==
    [title |-> Str("Recipe from Photo"),
     ingredients |-> <<>>,
     steps |-> <<Str("Original text from image:"), Str(extractedText)>>,
     servings |-> Num(4), prepTime |-> Num(0), cookTime |-> Num(0),
     url |-> Null, imageUrl |-> Null,
     extractedText |-> extractedText]

\* "If no structured data found, put everything in steps"
StepsOrOriginal(recipe) ==
    IF Len(recipe.ingredients) = 0 /\ Len(recipe.steps) = 0
    THEN [recipe EXCEPT !.steps = <<Str("Original text from image:"), Str(recipe.extractedText)>>]
    ELSE recipe

\* parseRecipeText from `const recipe = {' on, for parsedRecipe an object
NormalizedRecipe(extractedText, parsedRecipe, ingredients) ==
    IF \E i \in 1..Len(ingredients) : Nullish(ingredients[i])
    THEN fallbackParseRecipeText(extractedText)
    ELSE StepsOrOriginal(
           [title |-> Either(Get(parsedRecipe, "title"), Str("Recipe from Photo")),
            ingredients |-> [i \in 1..Len(ingredients) |-> NormalizedIngredient(ingredients[i])],
            steps |-> ArrayOrEmpty(Get(parsedRecipe, "steps")),
            servings |-> Either(parseInt(Get(parsedRecipe, "servings")), Num(4)),
            prepTime |-> Either(parseInt(Get(parsedRecipe, "prepTime")), Num(0)),
            cookTime |-> Either(parseInt(Get(parsedRecipe, "cookTime")), Num(0)),
            url |-> Null, imageUrl |-> Null,
            extractedText |-> extractedText])

\* parseRecipeText from JSON.parse(structuredResponse) on; parsedRecipe is
\* what JSON.parse gives
RecipeOfParsed(extractedText, structuredResponse, parsedRecipe) ==
    IF parsedRecipe = Malformed
    THEN AppError("Invalid JSON response from OpenAI", "EXTRACTION_ERROR", structuredResponse)
    ELSE IF Nullish(parsedRecipe) THEN fallbackParseRecipeText(extractedText)
    ELSE NormalizedRecipe(extractedText, parsedRecipe,
                          ArrayOrEmpty(Get(parsedRecipe, "ingredients")))

\* OCRProcessor.parseRecipeText once the key check has passed and fetch has
\* settled, content being ContentOrError(response): the recipe returned or
\* the AppError thrown
RecipeOfContent(extractedText, content) ==
    IF IsAppError(content) THEN content
    ELSE IF IsNativeError(content) THEN fallbackParseRecipeText(extractedText)
    ELSE IF ~Truthy(content)
    THEN AppError("No structured response from OpenAI", "EXTRACTION_ERROR", Undefined)
    ELSE RecipeOfParsed(extractedText, content, JSONparse(content.v))

parseRecipeText(extractedText, response) ==
    RecipeOfContent(extractedText, ContentOrError(response))

\* parseTextToRecipe from JSON.parse(jsonResponse) on
PdfRecipeOfParsed(recipe) ==
    IF recipe = Malformed \/ Nullish(recipe)
    THEN WrappedError("Failed to parse recipe from text", recipe, "API_ERROR")
    ELSE [title |-> Either(Get(recipe, "title"), Str("Untitled Recipe")),
          servings |-> Either(parseInt(Get(recipe, "servings")), Num(1)),
          prepTime |-> Either(parseInt(Get(recipe, "prepTime")), Num(0)),
          cookTime |-> Either(parseInt(Get(recipe, "cookTime")), Num(0)),
          ingredients |-> ArrayOrEmpty(Get(recipe, "ingredients")),
          steps |-> ArrayOrEmpty(Get(recipe, "steps"))]

\* OCRProcessor.parseTextToRecipe once the key check has passed and fetch has
\* settled, content being ContentOrError(response)
PdfRecipeOfContent(content) ==
    IF IsAppError(content) THEN content
    ELSE IF IsNativeError(content)
    THEN WrappedError("Failed to parse recipe from text", content, "API_ERROR")
    ELSE IF ~Truthy(content) THEN AppError("No response from OpenAI API", "API_ERROR", Undefined)
    ELSE PdfRecipeOfParsed(JSONparse(content.v))

parseTextToRecipe(response) == PdfRecipeOfContent(ContentOrError(response))

\* what a call goes on with: its position, what it holds, what it returned
\* or threw, the requests issued
Outcome(position, held, result, requests) ==
    [pc |-> position, ocr |-> held, ret |-> result, net |-> requests]

Becomes(outcome) ==
    /\ pc' = outcome.pc
    /\ ocr' = outcome.ocr
    /\ ret' = outcome.ret
    /\ net' = outcome.net

\* the call ends: it returns result, or throws it
Ends(result) == Outcome("done", ocr, result, net)

Pending == [t |-> "pending"]

\* a request to url with the image or the text it carries, and what it
\* settles with
Request(url, content) == [url |-> url, content |-> content, response |-> Pending]

\* the outcome of a step that begins when the last request settles with
\* response
Answered(outcome, response) == [outcome EXCEPT !.net[Len(net)].response = response]

\* the caller awaits extractTextFromImage(imageDataUrl) when it is at page i
\* and holds text: the key check, then the fetch; thrown is what the caller
\* makes of the AppError of the key check
AwaitText(key, imageDataUrl, i, text, thrown) ==
    IF KeyNotConfigured(key) THEN Ends(thrown)
    ELSE Outcome("vision", [i |-> i, text |-> text], ret,
                 Append(net, Request(OPENAI_URL, imageDataUrl)))

\* the caller awaits parseRecipeText(text) or parseTextToRecipe(text)
AwaitRecipe(key, i, text, thrown) ==
    IF KeyNotConfigured(key) THEN Ends(thrown)
    ELSE Outcome("completion", [i |-> i, text |-> text], ret,
                 Append(net, Request(OPENAI_URL, text)))

\* recipe.imageUrl = ...; recipe.originalImageName = ...: what the entry
\* points add to the recipe they return
Attached(recipe, added) == IF IsAppError(recipe) THEN recipe ELSE added @@ recipe

\* new AppError(`Failed to process PDF: ${error.message}`, EXTRACTION_ERROR):
\* the catch of processPDFToRecipe, which every error passes through
PdfError(error) == WrappedError("Failed to process PDF", error, "EXTRACTION_ERROR")

\* the catch of processPDFAsImages, which every error passes through
AsImagesError(error) ==
    WrappedError("Failed to process PDF as images", error, "EXTRACTION_ERROR")

\* allExtractedText += `${header}${text.trim()}` if the text is not blank
Appended(all, header, text) == IF trim(text) # "" THEN all \o header \o trim(text) ELSE all

RECURSIVE JoinItems(_, _)
\* items.map(item => item.str).filter(str => str && str.trim().length > 0)
\* .join(' ') from item j on
JoinItems(items, j) ==
    IF j > Len(items) THEN ""
    ELSE IF trim(items[j]) = "" THEN JoinItems(items, j + 1)
    ELSE IF JoinItems(items, j + 1) = "" THEN items[j]
    ELSE items[j] \o " " \o JoinItems(items, j + 1)

RECURSIVE PdfFullText(_, _)
\* fullText of extractTextFromPDF after the pages from pageNum on; a page is
\* the strings of its text items
PdfFullText(pages, pageNum) ==
    IF pageNum > Len(pages) THEN ""
    ELSE Appended("", "\n\nPage " \o ToDigits(pageNum) \o ":\n", JoinItems(pages[pageNum], 1))
         \o PdfFullText(pages, pageNum + 1)

\* the picture of page pageNum that processPDFAsImages renders
RenderedPage(pageNum) == "data:image/png;base64,page" \o ToDigits(pageNum)

Min(a, b) == IF a < b THEN a ELSE b

\* processPDFToRecipe once extractTextFromPDF has returned extractedText
PdfExtracted(key, i, extractedText) ==
    IF Len(trim(extractedText)) < MIN_PDF_TEXT_LENGTH
    THEN Ends(PdfError(AppError(
             "PDF appears to be empty or contains insufficient text for recipe extraction",
             "EXTRACTION_ERROR", Undefined)))
    ELSE AwaitRecipe(key, i, extractedText, PdfError(KeyError("recipe parsing")))

\* the loop of processPDFAsImages at page i + 1, allExtractedText being all
NextRendered(a, i, all) ==
    IF i < Min(Len(a.pages), MAX_OCR_PAGES)
    THEN AwaitText(a.key, RenderedPage(i + 1), i, all, PdfError(AsImagesError(KeyError("OCR"))))
    ELSE IF trim(all) = ""
    THEN Ends(PdfError(AsImagesError(AppError(
             "No text could be extracted from PDF pages using OCR", "EXTRACTION_ERROR",
             Undefined))))
    ELSE PdfExtracted(a.key, i, trim(all))

\* extractTextFromPDF once pdfjsLib is there, fullText being the text of the
\* text layers
PdfTextOrImages(a, fullText) ==
    IF trim(fullText) # "" THEN PdfExtracted(a.key, 0, trim(fullText))
    ELSE NextRendered(a, 0, "")

PdfLoaded(a) == PdfTextOrImages(a, PdfFullText(a.pages, 1))

\* the loop of processMultipleImagesToRecipe at file i + 1
NextImage(a, i, all) ==
    IF i < Len(a.files)
    THEN AwaitText(a.key, a.files[i + 1], i, all, KeyError("OCR"))
    ELSE IF trim(all) = ""
    THEN Ends(AppError("No text could be extracted from any of the images",
                       "EXTRACTION_ERROR", Undefined))
    ELSE AwaitRecipe(a.key, i, all, KeyError("OCR"))

\* the entry point f resumed with what extractTextFromImage returned or threw
AfterText(f, a, held, text) ==
    CASE f = "processImageToRecipe" ->
           IF IsAppError(text) THEN Ends(text)
           ELSE AwaitRecipe(a.key, 0, text.v, KeyError("OCR"))
      [] f = "processMultipleImagesToRecipe" ->
           IF IsAppError(text) THEN Ends(text)
           ELSE NextImage(a, held.i + 1,
                          Appended(held.text,
                                   "\n\n--- Page " \o ToDigits(held.i + 1) \o " ---\n", text.v))
      [] f = "processPDFToRecipe" ->
           IF IsAppError(text) THEN Ends(PdfError(AsImagesError(text)))
           ELSE NextRendered(a, held.i + 1,
                             Appended(held.text,
                                      "\n\nPage " \o ToDigits(held.i + 1) \o ":\n", text.v))

\* the PDF path of AfterRecipe: recipe is what parseTextToRecipe returned or
\* threw
PdfRecipe(recipe) ==
    IF IsAppError(recipe) THEN PdfError(recipe)
    ELSE [originalFileName |-> Str("recipe.pdf"), sourceType |-> Str("pdf")] @@ recipe

\* what the entry point f returns or throws once the fetch of its synthesis
\* call has settled with response
AfterRecipe(f, a, held, response) ==
    CASE f = "processImageToRecipe" ->
           Attached(parseRecipeText(held.text, response),
                    [imageUrl |-> Str(a.files[1]), originalImageName |-> Str("page1.jpg")])
      [] f = "processMultipleImagesToRecipe" ->
           Attached(parseRecipeText(held.text, response),
                    [imageUrl |-> Str(a.files[1]), originalImageName |-> Str("page1.jpg"),
                     sourceImageCount |-> Num(Len(a.files))])
      [] f = "processPDFToRecipe" -> PdfRecipe(parseTextToRecipe(response))

\* the greatest number of photographs handed to processMultipleImagesToRecipe
MaxPages == 3

OcrEntryPoints == {"processImageToRecipe", "processMultipleImagesToRecipe", "processPDFToRecipe"}

\* CONFIG.OPENAI_API_KEY: not set, empty, the placeholder, a key
ApiKeys == {Undefined, Str(""), Str("YOUR_OPENAI_API_KEY_HERE"), Str("sk-test")}

\* what fileToBase64 gives for photograph i
ImageDataUrl(i) == "data:image/jpeg;base64,page" \o ToDigits(i)

Photographs(n) == [i \in 1..n |-> ImageDataUrl(i)]

\* texts the vision collaborator reads from a picture
RecipeText == "Pancakes\n1 cup flour\n2 eggs\nMix the flour and the eggs.\nCook in a pan."
NotesText == " Serves 4 \n"
BlankText == " \n "

\* the text layers of a page of a PDF: the strings of its text items
TextPage == <<"Pancakes", " ", "1 cup flour", "2 eggs", "Mix the flour and the eggs.", "Cook in a pan.">>
ShortPage == <<"Serves 4", "">>
BlankPage == <<" ", "">>
ScannedPage == <<>>

PdfDocuments ==
    {<<TextPage>>, <<ShortPage>>, <<ShortPage, TextPage>>, <<BlankPage, TextPage>>,
     <<ScannedPage>>, <<BlankPage, ScannedPage>>}

OcrCalls ==
    [key : ApiKeys, files : {Photographs(1)}, pages : {<<>>}, pdfjsLib : {FALSE},
     fn : {"processImageToRecipe"}]
    \cup [key : ApiKeys, files : {Photographs(n) : n \in 0..MaxPages}, pages : {<<>>},
          pdfjsLib : {FALSE}, fn : {"processMultipleImagesToRecipe"}]
    \cup [key : ApiKeys, files : {<<>>}, pages : PdfDocuments, pdfjsLib : BOOLEAN,
          fn : {"processPDFToRecipe"}]

ApiFailures ==
    {Rejection("Failed to fetch"),
     Response(FALSE, 401, "Unauthorized",
              Obj([error |-> Obj([message |-> Str("Incorrect API key provided")])])),
     Response(FALSE, 502, "Bad Gateway", Malformed)}

\* what the fetch of extractTextFromImage settles with
VisionResponses ==
    ApiFailures
    \cup {Response(TRUE, 200, "OK", Completion(Str(text))) :
             text \in {RecipeText, NotesText, BlankText, ""}}
    \cup {Response(TRUE, 200, "OK", Obj([choices |-> Arr(<<>>)]))}

\* what the fetch of parseRecipeText and of parseTextToRecipe settles with
CompletionResponses ==
    ApiFailures
    \cup {Response(TRUE, 200, "OK", Completion(Str(text))) :
             text \in {FullJson, BareJson, ZeroJson, EmptyJson, NullJson, ProseJson, ""}}
    \cup {Response(TRUE, 200, "OK", Obj(<<>>))}

InitOcr ==
    /\ fn \in OcrEntryPoints
    /\ arg \in OcrCalls
    /\ arg.fn = fn
    /\ pc = "call"
    /\ html = Undefined
    /\ ret = Undefined
    /\ net = <<>>
    /\ ocr = [i |-> 0, text |-> ""]
    /\ localStorage = Undefined
    /\ db = Undefined

\* processImageToRecipe up to the fetch of extractTextFromImage; the file
\* passes validateImage and reading it is no request
ProcessImageToRecipe ==
    /\ fn = "processImageToRecipe"
    /\ pc = "call"
    /\ Becomes(AwaitText(arg.key, arg.files[1], 0, "", KeyError("OCR")))
    /\ UNCHANGED <<fn, arg, html, localStorage, db>>

\* processMultipleImagesToRecipe up to the fetch of extractTextFromImage for
\* the first file
ProcessMultipleImagesToRecipe ==
    /\ fn = "processMultipleImagesToRecipe"
    /\ pc = "call"
    /\ Becomes(NextImage(arg, 0, ""))
    /\ UNCHANGED <<fn, arg, html, localStorage, db>>

\* processPDFToRecipe up to its first request: the script of PDF.js where
\* pdfjsLib is not defined
ProcessPDFToRecipe ==
    /\ fn = "processPDFToRecipe"
    /\ pc = "call"
    /\ Becomes(IF ~arg.pdfjsLib
               THEN Outcome("loading", ocr, ret, Append(net, Request(PDFJS_URL, "")))
               ELSE PdfLoaded(arg))
    /\ UNCHANGED <<fn, arg, html, localStorage, db>>

\* script.onload or script.onerror of loadPDFJS, and extractTextFromPDF on
\* to the next request
PdfJsSettles ==
    /\ pc = "loading"
    /\ \E loaded \in BOOLEAN :
          Becomes(Answered(
              IF loaded THEN PdfLoaded(arg)
              ELSE Ends(PdfError(WrappedError(
                       "Failed to extract text from PDF",
                       [t |-> "Error", message |-> "Failed to load PDF.js library"],
                       "EXTRACTION_ERROR"))),
              Response(loaded, IF loaded THEN 200 ELSE 404, "", Undefined)))
    /\ UNCHANGED <<fn, arg, html, localStorage, db>>

\* the fetch of extractTextFromImage settles, and the entry point runs on to
\* its next request or to its end
VisionSettles ==
    /\ pc = "vision"
    /\ \E response \in VisionResponses :
          Becomes(Answered(AfterText(fn, arg, ocr, extractTextFromImage(response)), response))
    /\ UNCHANGED <<fn, arg, html, localStorage, db>>

\* the fetch of parseRecipeText or parseTextToRecipe settles, and the entry
\* point runs to its end
CompletionSettles ==
    /\ pc = "completion"
    /\ \E response \in CompletionResponses :
          Becomes(Answered(Ends(AfterRecipe(fn, arg, ocr, response)), response))
    /\ UNCHANGED <<fn, arg, html, localStorage, db>>

NextOcr ==
    \/ ProcessImageToRecipe
    \/ ProcessMultipleImagesToRecipe
    \/ ProcessPDFToRecipe
    \/ PdfJsSettles
    \/ VisionSettles
    \/ CompletionSettles

SpecOcr == InitOcr /\ [][NextOcr]_vars

\* the key is missing, empty or the placeholder
KeyMissing == arg.key \in {Undefined, Str(""), Str("YOUR_OPENAI_API_KEY_HERE")}

\* the call has failed with the API_ERROR that tells of the key
FailedForKey ==
    /\ IsAppError(ret)
    /\ ret.type = "API_ERROR"
    /\ HasAt(ret.message, 1, "OpenAI API key not configured")

\* C15 (as claimed): on each of processImageToRecipe,
\* processMultipleImagesToRecipe and processPDFToRecipe, when the API key is
\* missing or is the placeholder, no request of any kind is ever issued and
\* the call ends with the API_ERROR "OpenAI API key not configured ...".
\* Violated by processPDFToRecipe.
C15_MissingKeyShortCircuits ==
    (fn \in OcrEntryPoints /\ KeyMissing)
        => /\ net = <<>>
           /\ pc \in {"call", "done"}
           /\ pc = "done" /\ Len(arg.files) + Len(arg.pages) > 0 => FailedForKey

\* the call has ended after its synthesis request (the one that carries the
\* text, not a picture) has been answered
SynthesisAnswered ==
    /\ pc = "done"
    /\ net # <<>>
    /\ net[Len(net)].url = OPENAI_URL
    /\ ~HasAt(net[Len(net)].content, 1, "data:image/")

\* the text a response of the API carries, "" if it carries none
AnswerText(response) ==
    IF "ok" \in DOMAIN response /\ response.ok /\ response.body # Malformed
       /\ IsStr(ChoiceContent(response.body))
    THEN ChoiceContent(response.body).v
    ELSE ""

\* C16 (as claimed): when the completion collaborator answers with a text
\* that is no JSON (JSON wrapped in prose), parseRecipeText does not fail: the
\* recipe has the steps "Original text from image:" and the raw text, and no
\* ingredient.  Violated: the call throws an AppError.
C16_ProseFallsBackToRawText ==
    (/\ fn \in {"processImageToRecipe", "processMultipleImagesToRecipe"}
     /\ SynthesisAnswered
     /\ AnswerText(net[Len(net)].response) # ""
     /\ JSONparse(AnswerText(net[Len(net)].response)) = Malformed)
        => /\ ~IsAppError(ret)
           /\ ret.steps = <<Str("Original text from image:"), Str(ocr.text)>>
           /\ ret.ingredients = <<>>

\* the value JSON.parse makes of the collaborator's answer to the synthesis
\* request
SynthesisAnswer == JSONparse(AnswerText(net[Len(net)].response))

\* field of the returned recipe is n if the answer lacks it
DefaultsTo(field, n) ==
    field \notin DOMAIN SynthesisAnswer.v => ret[field] = Num(n)

\* C17 (as claimed): when the JSON of the completion collaborator lacks
\* servings, prepTime or cookTime, the recipe returned (by parseRecipeText on
\* the image paths, by parseTextToRecipe on the PDF path) has servings 4,
\* prepTime 15, cookTime 30 there.  Violated on every path.
C17_MissingNumbersGetModelDefaults ==
    (/\ fn \in OcrEntryPoints
     /\ SynthesisAnswered
     /\ SynthesisAnswer.t = "object"
     /\ ~IsAppError(ret))
        => /\ DefaultsTo("servings", DEFAULT_SERVINGS)
           /\ DefaultsTo("prepTime", DEFAULT_PREP_TIME)
           /\ DefaultsTo("cookTime", DEFAULT_COOK_TIME)

IsPicture(request) == HasAt(request.content, 1, "data:image/")

\* the text-extraction requests issued so far, and the synthesis requests
ExtractionRequests == SelectSeq(net, IsPicture)
SynthesisRequests == SelectSeq(net, LAMBDA request : ~IsPicture(request))

\* the text each extraction request was answered with
PageTexts == [j \in 1..Len(ExtractionRequests) |-> AnswerText(ExtractionRequests[j].response)]

RECURSIVE ContainsInOrder(_, _, _, _)
\* input holds, from index from on, the texts from j on that are not blank,
\* one after the other
ContainsInOrder(input, texts, j, from) ==
    IF j > Len(texts) THEN TRUE
    ELSE IF trim(texts[j]) = "" THEN ContainsInOrder(input, texts, j + 1, from)
    ELSE /\ indexOf(input, trim(texts[j]), from) > 0
         /\ ContainsInOrder(input, texts, j + 1,
                            indexOf(input, trim(texts[j]), from) + Len(trim(texts[j])))

\* the collaborator has answered every extraction request (no request failed)
EveryPageAnswered ==
    \A j \in 1..Len(ExtractionRequests) : ExtractionRequests[j].response \notin ApiFailures

\* C18 (as claimed): processMultipleImagesToRecipe issues its text-extraction
\* requests one at a time in the order of the files, each after the one
\* before it has been answered; when the collaborator has answered them, it
\* makes exactly one synthesis request, whose input holds the page texts that
\* are not empty in page order; if no page yields text it makes no synthesis
\* request and fails with EXTRACTION_ERROR.  Violated when a page after one
\* with text is answered with an empty text.
C18_PagesInOrderThenOneSynthesis ==
    fn = "processMultipleImagesToRecipe"
        => /\ \A j \in 1..(Len(net) - 1) : net[j].response # Pending
           /\ \A j \in 1..Len(ExtractionRequests) :
                 ExtractionRequests[j].content = arg.files[j]
           /\ Len(SynthesisRequests) <= 1
           /\ SynthesisRequests # <<>> => ~IsPicture(net[Len(net)])
           /\ (pc = "done" /\ ~KeyMissing /\ EveryPageAnswered)
                 => IF \E j \in 1..Len(PageTexts) : trim(PageTexts[j]) # ""
                    THEN /\ Len(SynthesisRequests) = 1
                         /\ ContainsInOrder(SynthesisRequests[1].content, PageTexts, 1, 1)
                    ELSE /\ SynthesisRequests = <<>>
                         /\ IsAppError(ret)
                         /\ ret.type = "EXTRACTION_ERROR"

-----------------------------------------------------------------------------
(* Recipes of pages whose texts hold markup *)

\* ingredient lines and instructions as publishers write them into JSON-LD
\* and into list items
MarkupIngredients ==
    {"1 cup flour", "2 tbsp Bob's flour", "1 cup S&amp;W beans", "1 cup <b>flour</b>",
     "2 cups flour&nbsp;", "1 cup S&amp;amp;amp;W beans"}

MarkupSteps ==
    {"Mix the batter well.", "Don't overmix the batter.", "Mix <b>well</b> and let it rest.",
     "Mix &amp; rest the batter.", "Heat the oven to 350&#176;F."}

\* the forms of recipeInstructions
InstructionForms(step) ==
    {Str(step), Arr(<<Str(step)>>), Arr(<<HowToStep("text", step)>>)}

MarkupPages ==
    { [ld |-> <<Obj(With(With(Pancakes, "recipeIngredient", Arr(<<Str(ingredient)>>)),
                         "recipeInstructions", instructions))>>,
       body |-> ShellBody, ldLength |-> ShortScript] :
      ingredient \in MarkupIngredients,
      instructions \in UNION {InstructionForms(step) : step \in MarkupSteps} }
    \cup { [ld |-> <<>>, body |-> ItemsBody(ingredient, 3, step, 2, TRUE), ldLength |-> 0] :
           ingredient \in MarkupIngredients, step \in MarkupSteps }

InitMarkup ==
    /\ fn \in {"extractFromJsonLd", "extractRecipe"}
    /\ arg \in Calls
    /\ html \in MarkupPages
    /\ pc = "start"
    /\ ret = Undefined
    /\ net = <<>>
    /\ ocr = Undefined
    /\ localStorage = Undefined
    /\ db = Undefined

NextMarkup == ExtractFromJsonLd \/ ExtractRecipeFromHtml \/ ValidateExtracted

SpecMarkup == InitMarkup /\ [][NextMarkup]_vars

\* text holds an HTML tag: a "<" with a ">" after it
HasTag(text) ==
    \E i \in 1..Len(text) : Char(text, i) = "<" /\ indexOf(text, ">", i + 1) > 0

\* text holds a character entity at i: "&", a name or "#" and a number, ";"
EntityAt(text, i) ==
    /\ Char(text, i) = "&"
    /\ indexOf(text, ";", i + 1) > i + 1
    /\ \A k \in (i + 1)..(indexOf(text, ";", i + 1) - 1) :
          IsAlpha(Char(text, k)) \/ IsDigit(Char(text, k)) \/ Char(text, k) = "#"

HasEntity(text) == \E i \in 1..Len(text) : EntityAt(text, i)

\* text is decoded and stripped
Plain(text) == ~HasTag(text) /\ ~HasEntity(text)

\* the strings among the tagged values are decoded and stripped
PlainValues(values) ==
    \A i \in 1..Len(values) : IsStr(values[i]) => Plain(values[i].v)

\* the record extractFromJsonLd returns: its ingredients and its steps are
\* arrays of tagged values where it has them
PlainProjection(recipe) ==
    /\ IsArr(recipe.ingredients)
          => \A i \in 1..Len(recipe.ingredients.v) :
                PlainValues(<<recipe.ingredients.v[i].amount, recipe.ingredients.v[i].unit,
                              recipe.ingredients.v[i].item>>)
    /\ IsArr(recipe.steps) => PlainValues(recipe.steps.v)

\* the validated recipe: its ingredients and its steps hold strings
PlainValidated(recipe) ==
    /\ \A i \in 1..Len(recipe.ingredients) :
          /\ Plain(recipe.ingredients[i].amount)
          /\ Plain(recipe.ingredients[i].unit)
          /\ Plain(recipe.ingredients[i].item)
    /\ \A i \in 1..Len(recipe.steps) : Plain(recipe.steps[i])

\* C20 (as claimed): in every recipe the extraction core produces, the
\* projection of structured data and the validated recipe extractRecipe
\* returns, no ingredient amount, unit or item and no step holds an HTML tag
\* or a character entity.  Violated by both.
C20_RecipeTextsDecodedAndStripped ==
    /\ (fn = "extractFromJsonLd" /\ pc = "done" /\ "ingredients" \in DOMAIN ret)
          => PlainProjection(ret)
    /\ (fn = "extractRecipe" /\ pc = "done" /\ ~IsAppError(ret))
          => PlainValidated(ret)

-----------------------------------------------------------------------------
(* extractRecipeFromHtml step by step: JSON-LD, microdata, markup patterns *)

\* JSON-LD records that hold some of name, recipeIngredient,
\* recipeInstructions and image
PartialRecords ==
    { With(With(With(With(Pancakes, "name", name), "recipeIngredient", list),
                "recipeInstructions", instructions), "image", image) :
      name \in {Str("Pancakes"), Str("Recipe from Grandma's kitchen"), Unset},
      list \in {Pancakes.recipeIngredient, Unset},
      instructions \in {Str("Mix the batter. Cook until golden."), Unset},
      image \in {Str("https://example.com/p.jpg"), Unset} }

\* markup that the patterns match, markup with microdata, and markup with
\* neither
StagedBodies ==
    { "", ShellBody,
      "<meta property=\"og:image\" content=\"https://example.com/hero.jpg\">"
         \o "<h1>Best Ever Pancakes</h1><ul>" \o Item("ingredient-item", "3 eggs")
         \o "</ul><ol>" \o Item("instruction", "Whisk everything together well.") \o "</ol>",
      "<div itemscope><h2 itemprop=\"name\">Toast</h2>"
         \o "<img itemprop=\"image\" src=\"https://example.com/toast.jpg\">"
         \o "<span itemprop=\"recipeIngredient\">2 slices bread</span>"
         \o "<div itemprop=\"recipeInstructions\">Toast the bread until golden.</div></div>",
      "<div itemscope><meta itemprop='name' content='Toast'>"
         \o "<span itemprop='ingredients'>2 slices bread</span></div>"
         \o Item("ingredient-item", "1 tbsp butter") }

StagedPages ==
    { [ld |-> b, body |-> h, ldLength |-> ShortScript] :
      b \in {<<>>} \cup { <<Obj(o)>> : o \in PartialRecords }, h \in StagedBodies }

InitStaged ==
    /\ fn = "extractRecipeFromHtml"
    /\ arg \in Calls
    /\ html \in StagedPages
    /\ pc = "start"
    /\ ret = Undefined
    /\ net = <<>>
    /\ ocr = Undefined
    /\ localStorage = Undefined
    /\ db = Undefined

\* the recipe after Object.assign(recipe, jsonLdRecipe), returned at once if
\* it has ingredients and steps (older version: ingredients or steps)
AfterJsonLd(variant, recipe, found) ==
    Returned(recipe,
             /\ found
             /\ IF variant = "older"
                THEN Len(recipe.ingredients.v) > 0 \/ Len(recipe.steps.v) > 0
                ELSE IsComplete(recipe))

\* const jsonLdRecipe = this.extractFromJsonLd(htmlContent); if (jsonLdRecipe)
\* { Object.assign(recipe, jsonLdRecipe); if (...) return recipe; }
AssignJsonLd ==
    /\ fn = "extractRecipeFromHtml"
    /\ pc = "start"
    /\ ret' = AfterJsonLd(arg.variant,
                          Assigned(NewRecipe(arg.url, ParseURL(arg.url.v)),
                                   extractFromJsonLd(arg.variant, html.ld)),
                          extractFromJsonLd(arg.variant, html.ld) # Null)
    /\ pc' = "assigned"
    /\ UNCHANGED <<fn, arg, html, net, ocr, localStorage, db>>

\* const microdataRecipe = this.extractFromMicrodata(htmlContent); if
\* (microdataRecipe) { ... } (current version only)
MergeFromMicrodata ==
    /\ fn = "extractRecipeFromHtml"
    /\ pc = "assigned"
    /\ arg.variant = "current"
    /\ ~ret.returned
    /\ ret' = FromMicrodata(ret.recipe, extractFromMicrodata(html.body, toLowerCase(html.body)))
    /\ pc' = "merged"
    /\ UNCHANGED <<fn, arg, html, net, ocr, localStorage, db>>

\* this.extractFromHtmlPatterns(htmlContent, recipe) and the rest of
\* extractRecipeFromHtml after it
FillFromHtmlPatterns ==
    /\ fn = "extractRecipeFromHtml"
    /\ pc = "merged" \/ (pc = "assigned" /\ arg.variant = "older")
    /\ ret # Thrown
    /\ ~ret.returned
    /\ ret' = Returned(WithPlaceholders(
                           extractFromHtmlPatterns(arg.variant, html.body,
                                                   toLowerCase(html.body), ret.recipe),
                           HintOf(arg.variant, html)),
                       TRUE)
    /\ pc' = "patterns"
    /\ UNCHANGED <<fn, arg, html, net, ocr, localStorage, db>>

NextStaged == AssignJsonLd \/ MergeFromMicrodata \/ FillFromHtmlPatterns

SpecStaged == InitStaged /\ [][NextStaged]_vars

\* the steps together are extractRecipeFromHtml
StagedAgrees ==
    (pc = "patterns" \/ (pc # "start" /\ ret # Thrown /\ ret.returned))
        => ret.recipe = extractRecipeFromHtml(arg.variant, html, arg.url)

\* a field that JSON-LD or microdata has given the recipe
Populated(recipe, field) ==
    CASE field = "title" -> ~HasAt(recipe.title.v, 1, "Recipe from ")
      [] field = "imageUrl" -> Truthy(recipe.imageUrl)
      [] OTHER -> Len(recipe[field].v) > 0

PatternFields == {"title", "ingredients", "steps", "imageUrl"}

\* C21 (as claimed): the call of extractFromHtmlPatterns leaves every one of
\* title, ingredients, steps and imageUrl that JSON-LD or microdata has
\* populated as it was.  Violated: extractTitleFromHtml and
\* extractImageFromHtml assign whatever their first matching pattern
\* captures, and the ingredient and step loops push onto the list they find.
C21_PatternsFillOnlyEmptyFields ==
    [][pc' = "patterns"
          => \A field \in PatternFields :
                Populated(ret.recipe, field) => ret'.recipe[field] = ret.recipe[field]]_vars

\* the record extractFromJsonLd has found on the page holds the field
FromJsonLdRecord(jsonLdRecipe, field) ==
    /\ jsonLdRecipe # Null
    /\ jsonLdRecipe[field] # Unset
    /\ field = "imageUrl" => Truthy(jsonLdRecipe[field])
    /\ field \in {"ingredients", "steps"} => Len(jsonLdRecipe[field].v) > 0

\* C28 (as claimed): the microdata merge leaves every one of title,
\* ingredients, steps and imageUrl that the JSON-LD record has populated as it
\* was.  Violated for the title: the merge takes the title for unset whenever
\* it starts with "Recipe from", also when JSON-LD has set it.
C28_MicrodataKeepsJsonLdFields ==
    [][(pc' = "merged" /\ ret' # Thrown)
          => \A field \in PatternFields :
                FromJsonLdRecord(extractFromJsonLd(arg.variant, html.ld), field)
                    => ret'.recipe[field] = ret.recipe[field]]_vars

-----------------------------------------------------------------------------
(* StorageManager and api/recipes.php: the database first, localStorage as *)
(* the fallback                                                            *)

\* new Date().toISOString() at the moments a call can be made, and the same
\* moments as the recipes table prints a TIMESTAMP
IsoText == <<"2024-05-01T08:00:00.000Z", "2024-05-02T08:00:00.000Z">>
SqlText == <<"2024-05-01 08:00:00", "2024-05-02 08:00:00">>
Clock == DOMAIN IsoText

toISOString(now) == Str(IsoText[now])

\* new Date(value || 0).getTime(), in the units of Clock (0: the epoch)
DateOf(value) ==
    IF ~Truthy(value) THEN 0
    ELSE IF \E n \in Clock : value.v \in {IsoText[n], SqlText[n]}
         THEN CHOOSE n \in Clock : value.v \in {IsoText[n], SqlText[n]}
         ELSE 0

\* a recipe object of the application; Unset: the property is not there
StoredRecipe(url, recipeId, title, servings) ==
    [url |-> url, recipeId |-> recipeId, title |-> title, prepTime |-> Num(5 * servings),
     cookTime |-> Num(10 * servings), servings |-> Num(servings),
     ingredients |-> Arr(IF servings = 1 THEN <<"1 egg">> ELSE <<"2 eggs", "butter">>),
     steps |-> Arr(IF servings = 1 THEN <<"Fry the egg.">> ELSE <<"Melt the butter.", "Fry the eggs.">>),
     imageUrl |-> IF servings = 1 THEN Str("https://example.com/egg.jpg")
                  ELSE Obj([url |-> Str("https://example.com/eggs.jpg")]),
     dateAdded |-> Unset]

\* imageUrl: typeof recipe.imageUrl === 'string' ? recipe.imageUrl :
\* (recipe.imageUrl?.url || null)
NormalImageUrl(imageUrl) ==
    IF IsStr(imageUrl) THEN imageUrl
    ELSE IF Truthy(Get(imageUrl, "url")) THEN Get(imageUrl, "url") ELSE Null

prepareRecipeForLocalStorage(recipe, now) ==
    [recipe EXCEPT !.imageUrl = NormalImageUrl(recipe.imageUrl),
                   !.dateAdded = toISOString(now)]

prepareRecipeForDatabase(recipe, now) ==
    [recipe EXCEPT !.imageUrl = NormalImageUrl(recipe.imageUrl),
                   !.dateAdded = IF Truthy(recipe.dateAdded) THEN recipe.dateAdded
                                 ELSE toISOString(now)]

\* JSON.parse(JSON.stringify(value)) of a recipe object: a property that is
\* undefined is not written, and is not there when the text is read back
JsonRoundTrip(recipe) ==
    [k \in DOMAIN recipe |-> IF recipe[k].t = "undefined" THEN Unset ELSE recipe[k]]

\* the place of entry i after list.sort((a, b) => key(b) - key(a)): larger
\* keys first, equal keys in the order they had
Rank(keys, i) ==
    Cardinality({j \in DOMAIN keys : keys[j] > keys[i] \/ (keys[j] = keys[i] /\ j < i)}) + 1

SortedDescending(list, keys) ==
    [r \in DOMAIN list |-> list[CHOOSE i \in DOMAIN list : Rank(keys, i) = r]]

\* the first number n from 1 for which no entry of list has prefix + n as its
\* recipeId: an id that uniqid() or Date.now() and Math.random() make is new
FreshId(list, prefix) ==
    Str(prefix \o ToDigits(CHOOSE n \in 1..(Len(list) + 1) :
                              /\ \A i \in DOMAIN list : list[i].recipeId # Str(prefix \o ToDigits(n))
                              /\ \A m \in 1..(n - 1) :
                                    \E i \in DOMAIN list : list[i].recipeId = Str(prefix \o ToDigits(m))))

-----------------------------------------------------------------------------
(* api/recipes.php *)

\* PHP's $x ?? $default and empty($x)
Coalesce(x, default) == IF Nullish(x) THEN default ELSE x
Empty(x) == Nullish(x) \/ x \in {Str(""), Str("0"), Num(0), Arr(<<>>)}

\* sendResponse($data, $status)
sendResponse(rows, status, message) == [rows |-> rows, status |-> status, message |-> message]

\* the values that INSERT and UPDATE bind, as the columns hold them
Columns(input, now) ==
    [title |-> input.title,
     prepTime |-> Coalesce(input.prepTime, Num(0)),
     cookTime |-> Coalesce(input.cookTime, Num(0)),
     servings |-> Coalesce(input.servings, Num(1)),
     dateAdded |-> IF Nullish(input.dateAdded) THEN now ELSE DateOf(input.dateAdded),
     imageUrl |-> Coalesce(input.imageUrl, Str("")),
     url |-> Coalesce(input.url, Str("")),
     ingredients |-> Coalesce(input.ingredients, Arr(<<>>)),
     steps |-> Coalesce(input.steps, Arr(<<>>))]

\* a row of the recipes table
RowOf(id, recipeId, columns) ==
    [k \in DOMAIN columns \cup {"id", "recipeId"} |->
        IF k = "id" THEN id ELSE IF k = "recipeId" THEN recipeId ELSE columns[k]]

\* SELECT id FROM recipes WHERE recipeId = ? OR (url IS NOT NULL AND url != ''
\* AND url = ?)
SelectExisting(rows, recipeId, url) ==
    { i \in DOMAIN rows :
        \/ rows[i].recipeId = recipeId
        \/ (rows[i].url # Null /\ rows[i].url # Str("") /\ rows[i].url = url) }

\* UPDATE recipes SET ... WHERE recipeId = ?, and the response after it
updateExistingRecipe(rows, input, recipeId, now) ==
    sendResponse([i \in DOMAIN rows |->
                     IF rows[i].recipeId = recipeId
                     THEN RowOf(rows[i].id, recipeId, Columns(input, now))
                     ELSE rows[i]],
                 200, "Recipe updated successfully")

\* createRecipe() on the body of a POST; failed: a statement throws a
\* PDOException
createRecipe(rows, input, now, failed) ==
    IF Empty(input.title) THEN sendResponse(rows, 400, "Recipe title is required")
    ELSE IF failed THEN sendResponse(rows, 500, "Failed to save recipe")
    ELSE IF SelectExisting(rows, Coalesce(input.recipeId, FreshId(rows, "recipe_")),
                           Coalesce(input.url, Str(""))) # {}
         THEN updateExistingRecipe(rows, input,
                                   Coalesce(input.recipeId, FreshId(rows, "recipe_")), now)
         ELSE sendResponse(Append(rows, RowOf(Len(rows) + 1,
                                              Coalesce(input.recipeId, FreshId(rows, "recipe_")),
                                              Columns(input, now))),
                           200, "Recipe created successfully")

\* getAllRecipes(): SELECT * FROM recipes ORDER BY dateAdded DESC, as the
\* objects response.json() gives
getAllRecipes(rows) ==
    SortedDescending([i \in DOMAIN rows |-> [rows[i] EXCEPT !.dateAdded = Str(SqlText[@])]],
                     [i \in DOMAIN rows |-> rows[i].dateAdded])

-----------------------------------------------------------------------------
(* StorageManager *)

\* localStorage.setItem(CONFIG.STORAGE_KEYS.SAVED_RECIPES,
\* JSON.stringify(recipes)), as JSON.parse reads the item back
Stringified(recipes) == Arr([i \in DOMAIN recipes |-> JsonRoundTrip(recipes[i])])

RECURSIVE AssignRecipeIds(_, _)
\* recipes.map(recipe => { if (!recipe.url && !recipe.recipeId) recipe.recipeId
\* = 'ocr_' + ...; return recipe; }), from entry i on
AssignRecipeIds(recipes, i) ==
    IF i > Len(recipes) THEN recipes
    ELSE IF ~Truthy(recipes[i].url) /\ ~Truthy(recipes[i].recipeId)
         THEN AssignRecipeIds([recipes EXCEPT ![i].recipeId = FreshId(recipes, "ocr_")], i + 1)
         ELSE AssignRecipeIds(recipes, i + 1)

\* getLocalRecipes() on the stored item: the list it returns and the item
\* after it; fits: the write of the list with new ids does not throw
getLocalRecipes(item, fits) ==
    IF item = Null \/ AssignRecipeIds(item.v, 1) = item.v
    THEN [recipes |-> IF item = Null THEN <<>> ELSE item.v, item |-> item]
    ELSE IF fits
         THEN [recipes |-> AssignRecipeIds(item.v, 1),
               item |-> Stringified(AssignRecipeIds(item.v, 1))]
         ELSE [recipes |-> <<>>, item |-> item]

\* the callback of localRecipes.findIndex in saveToLocalStorageFallback
IsExisting(cleanRecipe, r) ==
    IF Truthy(cleanRecipe.url) /\ Truthy(r.url) THEN r.url = cleanRecipe.url
    ELSE IF Truthy(cleanRecipe.recipeId) /\ Truthy(r.recipeId)
         THEN r.recipeId = cleanRecipe.recipeId
         ELSE FALSE

\* localRecipes.findIndex(...), counted from 1; 0: no entry
FindIndex(localRecipes, cleanRecipe) ==
    IF \E i \in DOMAIN localRecipes : IsExisting(cleanRecipe, localRecipes[i])
    THEN CHOOSE i \in DOMAIN localRecipes :
            /\ IsExisting(cleanRecipe, localRecipes[i])
            /\ \A j \in 1..(i - 1) : ~IsExisting(cleanRecipe, localRecipes[j])
    ELSE 0

\* localRecipes[existingIndex] = cleanRecipe, or localRecipes.unshift(cleanRecipe)
Placed(localRecipes, cleanRecipe) ==
    IF FindIndex(localRecipes, cleanRecipe) > 0
    THEN [localRecipes EXCEPT ![FindIndex(localRecipes, cleanRecipe)] = cleanRecipe]
    ELSE <<cleanRecipe>> \o localRecipes

\* saveToLocalStorageFallback without its setItem
saveToLocalStorageFallback_NoSetItem(read, recipe, now, fits) ==
    [item |-> read.item, thrown |-> Null]

\* saveToLocalStorageFallback(recipe): the item after it, and what it throws
\* (Null: nothing); read: the list getLocalRecipesFromStorage() gave
saveToLocalStorageFallback(read, recipe, now, fits) ==
    IF fits
    THEN [item |-> Stringified(Placed(read.recipes, prepareRecipeForLocalStorage(recipe, now))),
          thrown |-> Null]
    ELSE [item |-> read.item,
          thrown |-> AppError("Failed to save to local storage", "STORAGE_ERROR",
                              <<"QuotaExceededError">>)]

\* the callback of localRecipes.filter in deleteFromLocalStorage
ShouldKeep(r, recipeUrl, recipeId) ==
    IF Truthy(recipeUrl) /\ Len(trim(recipeUrl.v)) > 0 THEN r.url # recipeUrl
    ELSE IF Truthy(recipeId) THEN r.recipeId # recipeId
    ELSE TRUE

\* deleteFromLocalStorage(recipeUrl, recipeId)
deleteFromLocalStorage(read, recipeUrl, recipeId, fits) ==
    IF fits
    THEN [item |-> Stringified(SelectSeq(read.recipes,
                                         LAMBDA r : ShouldKeep(r, recipeUrl, recipeId))),
          thrown |-> Null]
    ELSE [item |-> read.item, thrown |-> [t |-> "QuotaExceededError"]]

\* saveToDatabase(recipe) against the table: the rows after it and what it
\* throws; reached: the request reaches api/recipes.php
saveToDatabase(rows, recipe, now, reached, failed) ==
    IF reached /\ createRecipe(rows, JsonRoundTrip(prepareRecipeForDatabase(recipe, now)),
                               now, failed).status = 200
    THEN [rows |-> createRecipe(rows, JsonRoundTrip(prepareRecipeForDatabase(recipe, now)),
                                now, failed).rows,
          thrown |-> Null]
    ELSE [rows |-> rows,
          thrown |-> AppError("Failed to save to database", "STORAGE_ERROR", <<"Error">>)]

\* what saveRecipe returns
SaveResult(databaseSaved, errors) ==
    [success |-> databaseSaved, localSaved |-> databaseSaved, errors |-> errors]

\* the rest of saveRecipe once saveToDatabase has settled
saveRecipe(saved, item, recipe, now, fitsIds, fits) ==
    IF saved.thrown = Null
    THEN [item |-> item, rows |-> saved.rows, ret |-> SaveResult(TRUE, <<>>)]
    ELSE [item |-> saveToLocalStorageFallback(getLocalRecipes(item, fitsIds), recipe, now, fits).item,
          rows |-> saved.rows,
          ret |-> SaveResult(FALSE,
                    <<"Database: " \o saved.thrown.message>>
                    \o (IF saveToLocalStorageFallback(getLocalRecipes(item, fitsIds),
                                                      recipe, now, fits).thrown = Null
                        THEN <<>>
                        ELSE <<"Fallback: Failed to save to local storage">>))]

\* the rest of loadSavedRecipes once loadFromDatabase has settled
loadSavedRecipes(rows, item, reached, failed, fitsIds) ==
    IF reached /\ ~failed
    THEN [item |-> item, ret |-> Arr(getAllRecipes(rows))]
    ELSE [item |-> getLocalRecipes(item, fitsIds).item,
          ret |-> Arr(SortedDescending(
                         getLocalRecipes(item, fitsIds).recipes,
                         [i \in DOMAIN getLocalRecipes(item, fitsIds).recipes |->
                             DateOf(getLocalRecipes(item, fitsIds).recipes[i].dateAdded)]))]

-----------------------------------------------------------------------------
(* Saving and loading while the database comes and goes *)

\* the most recipes localStorage or the table holds
MaxStored == 2

\* the recipes the user saves: a page's recipe, the same page edited, a
\* scanned card with its own id, and a legacy card with neither url nor
\* recipeId
StorageRecipes ==
    { StoredRecipe(Str("https://example.com/eggs"), Unset, Str("Fried egg"), 1),
      StoredRecipe(Str("https://example.com/eggs"), Unset, Str("Fried eggs for two"), 2),
      StoredRecipe(Str(""), Str("ocr_1714550000000_k3j9x2a"), Str("Aunt May's card"), 1),
      StoredRecipe(Unset, Unset, Str("Old card"), 2) }

InitStorage ==
    /\ fn = "idle"
    /\ arg = Undefined
    /\ pc = "idle"
    /\ html = Undefined
    /\ ret = Undefined
    /\ net = Undefined
    /\ ocr = Undefined
    /\ localStorage = Null
    /\ db = [up |-> TRUE, rows |-> <<>>]

\* the number of recipes localStorage holds
Stored == IF localStorage = Null THEN 0 ELSE Len(localStorage.v)

\* the application calls storage.saveRecipe(recipe), which awaits
\* saveToDatabase(recipe)
SaveRecipe ==
    /\ pc = "idle"
    /\ Stored < MaxStored
    /\ Len(db.rows) < MaxStored
    /\ \E recipe \in StorageRecipes, now \in Clock :
          arg' = [recipe |-> recipe, now |-> now]
    /\ fn' = "saveRecipe"
    /\ pc' = "saveToDatabase"
    /\ ret' = Undefined
    /\ UNCHANGED <<html, net, ocr, localStorage, db>>

\* the POST settles and saveRecipe runs to its end
SaveToDatabaseSettles ==
    /\ fn = "saveRecipe"
    /\ pc = "saveToDatabase"
    /\ \E fitsIds \in BOOLEAN, fits \in BOOLEAN :
          /\ localStorage' = saveRecipe(saveToDatabase(db.rows, arg.recipe, arg.now, db.up, FALSE),
                                        localStorage, arg.recipe, arg.now, fitsIds, fits).item
          /\ db' = [db EXCEPT !.rows = saveToDatabase(db.rows, arg.recipe, arg.now, db.up, FALSE).rows]
          /\ ret' = saveRecipe(saveToDatabase(db.rows, arg.recipe, arg.now, db.up, FALSE),
                               localStorage, arg.recipe, arg.now, fitsIds, fits).ret
    /\ pc' = "idle"
    /\ UNCHANGED <<fn, arg, html, net, ocr>>

\* the application calls storage.loadSavedRecipes(), which awaits
\* loadFromDatabase()
LoadSavedRecipes ==
    /\ pc = "idle"
    /\ fn' = "loadSavedRecipes"
    /\ arg' = Undefined
    /\ pc' = "loadFromDatabase"
    /\ ret' = Undefined
    /\ UNCHANGED <<html, net, ocr, localStorage, db>>

\* the GET settles and loadSavedRecipes runs to its end
LoadFromDatabaseSettles ==
    /\ fn = "loadSavedRecipes"
    /\ pc = "loadFromDatabase"
    /\ \E fitsIds \in BOOLEAN :
          /\ localStorage' = loadSavedRecipes(db.rows, localStorage, db.up, FALSE, fitsIds).item
          /\ ret' = loadSavedRecipes(db.rows, localStorage, db.up, FALSE, fitsIds).ret
    /\ pc' = "idle"
    /\ UNCHANGED <<fn, arg, html, net, ocr, db>>

\* someone runs window.syncLocalToDatabase() in the console: const
\* localRecipes = app.storage.getLocalRecipes(), and the loop awaits its first
\* saveToDatabase
SyncLocalToDatabase ==
    /\ pc = "idle"
    /\ \E fitsIds \in BOOLEAN, now \in Clock :
          /\ arg' = [localRecipes |-> getLocalRecipes(localStorage, fitsIds).recipes,
                     next |-> 1, synced |-> 0, skipped |-> 0, now |-> now]
          /\ localStorage' = getLocalRecipes(localStorage, fitsIds).item
          /\ IF getLocalRecipes(localStorage, fitsIds).recipes = <<>>
             THEN pc' = "idle" /\ ret' = [synced |-> 0, failed |-> 0, total |-> 0]
             ELSE pc' = "sync" /\ ret' = Undefined
    /\ fn' = "syncLocalToDatabase"
    /\ UNCHANGED <<html, net, ocr, db>>

\* the POST of the loop's current recipe settles; after the last one the
\* counts are returned
SyncSaveSettles ==
    /\ fn = "syncLocalToDatabase"
    /\ pc = "sync"
    /\ db' = [db EXCEPT !.rows = saveToDatabase(db.rows, arg.localRecipes[arg.next],
                                                arg.now, db.up, FALSE).rows]
    /\ arg' = [arg EXCEPT
                 !.next = @ + 1,
                 !.synced = IF saveToDatabase(db.rows, arg.localRecipes[arg.next],
                                              arg.now, db.up, FALSE).thrown = Null
                            THEN @ + 1 ELSE @,
                 !.skipped = IF saveToDatabase(db.rows, arg.localRecipes[arg.next],
                                               arg.now, db.up, FALSE).thrown = Null
                             THEN @ ELSE @ + 1]
    /\ IF arg.next = Len(arg.localRecipes)
       THEN pc' = "idle" /\ ret' = [synced |-> arg'.synced, failed |-> arg'.skipped,
                                    total |-> Len(arg.localRecipes)]
       ELSE pc' = "sync" /\ ret' = ret
    /\ UNCHANGED <<fn, html, net, ocr, localStorage>>

\* the database or the network goes away, so that every request fails, and
\* comes back
DatabaseGoesDown ==
    /\ db.up
    /\ db' = [db EXCEPT !.up = FALSE]
    /\ UNCHANGED <<fn, arg, pc, html, ret, net, ocr, localStorage>>

DatabaseComesUp ==
    /\ ~db.up
    /\ db' = [db EXCEPT !.up = TRUE]
    /\ UNCHANGED <<fn, arg, pc, html, ret, net, ocr, localStorage>>

NextStorage ==
    \/ SaveRecipe
    \/ SaveToDatabaseSettles
    \/ LoadSavedRecipes
    \/ LoadFromDatabaseSettles
    \/ SyncLocalToDatabase
    \/ SyncSaveSettles
    \/ DatabaseGoesDown
    \/ DatabaseComesUp

SpecStorage == InitStorage /\ [][NextStorage]_vars

\* a stored or returned recipe r is the recipe the user saved: the same url,
\* title, times, servings, ingredients and steps, and the same recipeId if
\* the recipe had one
IsCopyOf(r, recipe) ==
    /\ \A k \in {"url", "title", "prepTime", "cookTime", "servings", "ingredients", "steps"} :
          r[k] = recipe[k]
    /\ Truthy(recipe.recipeId) => r.recipeId = recipe.recipeId

\* the list holds a copy of recipe
Holds(list, recipe) == \E i \in DOMAIN list : IsCopyOf(list[i], recipe)

\* the recipes of the localStorage item
LocalRecipes(item) == IF item = Null THEN <<>> ELSE item.v

\* saveRecipe ends in this step, loadSavedRecipes ends in this step
SaveEnds == pc = "saveToDatabase" /\ pc' = "idle"
LoadEnds == pc = "loadFromDatabase" /\ pc' = "idle"

AllIdentified(list) == \A i \in DOMAIN list : Truthy(list[i].url) \/ Truthy(list[i].recipeId)

-----------------------------------------------------------------------------
(* After the connection is restored *)

\* every request settles, and the application loads the list again whenever
\* the saved view is shown; nothing obliges anyone to run
\* window.syncLocalToDatabase() in the console
SpecStorageLive ==
    /\ SpecStorage
    /\ WF_vars(SaveToDatabaseSettles)
    /\ WF_vars(LoadFromDatabaseSettles)
    /\ WF_vars(SyncSaveSettles)
    /\ WF_vars(LoadSavedRecipes)

\* the table holds the recipe
InDatabase(recipe) ==
    \E i \in DOMAIN db.rows :
       /\ db.rows[i].title = recipe.title
       /\ db.rows[i].url = Coalesce(recipe.url, Str(""))
       /\ db.rows[i].steps = recipe.steps

\* the recipe is in localStorage and not in the table
LocalOnly(recipe) == Holds(LocalRecipes(localStorage), recipe) /\ ~InDatabase(recipe)

\* the recipe of a page, as the user saves it
PageRecipe == StoredRecipe(Str("https://example.com/eggs"), Unset, Str("Fried egg"), 1)

\* C23 (as claimed, for the recipe of a page): if the database stays
\* reachable from some moment on, the recipe, once it is in localStorage
\* only, is eventually in the table.  Violated: no code path writes
\* localStorage recipes to the database unless window.syncLocalToDatabase()
\* is run by hand.
C23_LocalOnlyEventuallySynced ==
    <>[](db.up) => [](LocalOnly(PageRecipe) => <>InDatabase(PageRecipe))

-----------------------------------------------------------------------------
(* The localStorage list under saves and deletes *)

\* the urls and recipeIds a recipe or a delete may carry
LocalUrls == {Unset, Str(""), Str("https://example.com/eggs"), Str("https://example.com/toast")}
LocalIds == {Unset, Str("ocr_1714550000000_k3j9x2a"), Str("recipe_6634a1f2c9d10")}

LocalInputs == { StoredRecipe(url, recipeId, Str("Fried egg"), 1) : url \in LocalUrls, recipeId \in LocalIds }

InitLocal ==
    /\ fn = "idle"
    /\ arg = Undefined
    /\ pc = "idle"
    /\ html = Undefined
    /\ ret = Undefined
    /\ net = Undefined
    /\ ocr = Undefined
    /\ localStorage = Null
    /\ db = Undefined

\* saveToLocalStorageFallback(recipe)
SaveToLocalStorageFallback ==
    /\ fn' = "saveToLocalStorageFallback"
    /\ \E recipe \in LocalInputs, now \in Clock, fitsIds \in BOOLEAN, fits \in BOOLEAN :
          /\ arg' = recipe
          /\ localStorage' = saveToLocalStorageFallback(getLocalRecipes(localStorage, fitsIds),
                                                        recipe, now, fits).item
          /\ ret' = saveToLocalStorageFallback(getLocalRecipes(localStorage, fitsIds),
                                               recipe, now, fits).thrown
          /\ Len(LocalRecipes(localStorage')) <= MaxStored
    /\ UNCHANGED <<pc, html, net, ocr, db>>

\* deleteFromLocalStorage(recipeUrl, recipeId)
DeleteFromLocalStorage ==
    /\ fn' = "deleteFromLocalStorage"
    /\ \E recipeUrl \in LocalUrls, recipeId \in LocalIds, fitsIds \in BOOLEAN, fits \in BOOLEAN :
          /\ arg' = [recipeUrl |-> recipeUrl, recipeId |-> recipeId]
          /\ localStorage' = deleteFromLocalStorage(getLocalRecipes(localStorage, fitsIds),
                                                    recipeUrl, recipeId, fits).item
          /\ ret' = deleteFromLocalStorage(getLocalRecipes(localStorage, fitsIds),
                                           recipeUrl, recipeId, fits).thrown
    /\ UNCHANGED <<pc, html, net, ocr, db>>

NextLocal == SaveToLocalStorageFallback \/ DeleteFromLocalStorage

SpecLocal == InitLocal /\ [][NextLocal]_vars

\* no two entries of the list have the same non-empty value of the property
NoDuplicate(list, property) ==
    \A i, j \in DOMAIN list :
       (i # j /\ Truthy(list[i][property])) => list[i][property] # list[j][property]

\* C29 (as claimed): the localStorage list never holds two recipes with the
\* same non-empty url, nor two with the same recipeId.  Violated: findIndex
\* compares recipeIds only when one of the two urls is empty, and an entry
\* found by its recipeId is replaced whatever url the new recipe has.
C29_NoDuplicateUrlOrRecipeId ==
    /\ NoDuplicate(LocalRecipes(localStorage), "url")
    /\ NoDuplicate(LocalRecipes(localStorage), "recipeId")

-----------------------------------------------------------------------------
(* api/recipes.php: POSTs processed one at a time *)

\* the bodies posted: recipes with and without recipeId and url, in two
\* editions, and one without a title
ApiInputs ==
    { StoredRecipe(url, recipeId, edition[1], edition[2]) :
        url \in LocalUrls, recipeId \in LocalIds,
        edition \in {<<Str("Fried egg"), 1>>, <<Str("Fried eggs for two"), 2>>} }
    \cup { StoredRecipe(Str("https://example.com/eggs"), Unset, Str(""), 1) }

InitApi ==
    /\ fn = "idle"
    /\ arg = Undefined
    /\ pc = "idle"
    /\ html = Undefined
    /\ ret = Undefined
    /\ net = Undefined
    /\ ocr = Undefined
    /\ localStorage = Undefined
    /\ db = [up |-> TRUE, rows |-> <<>>]

\* case 'POST': createRecipe()
PostRecipe ==
    /\ fn' = "createRecipe"
    /\ \E input \in ApiInputs, now \in Clock, failed \in BOOLEAN :
          /\ arg' = input
          /\ db' = [db EXCEPT !.rows = createRecipe(db.rows, input, now, failed).rows]
          /\ ret' = [status |-> createRecipe(db.rows, input, now, failed).status,
                     message |-> createRecipe(db.rows, input, now, failed).message,
                     recipes |-> <<>>]
          /\ Len(db'.rows) <= MaxStored
    /\ UNCHANGED <<pc, html, net, ocr, localStorage>>

\* case 'GET': getAllRecipes()
GetRecipes ==
    /\ fn' = "getAllRecipes"
    /\ arg' = Undefined
    /\ ret' = [status |-> 200, message |-> "", recipes |-> getAllRecipes(db.rows)]
    /\ UNCHANGED <<pc, html, net, ocr, localStorage, db>>

NextApi == PostRecipe \/ GetRecipes

SpecApi == InitApi /\ [][NextApi]_vars

\* the rows that the posted recipe matches by recipeId or non-empty url
Matching(rows, input) ==
    SelectExisting(rows, Coalesce(input.recipeId, FreshId(rows, "recipe_")),
                   Coalesce(input.url, Str("")))

\* the row holds the posted title, times, servings, ingredients and steps
HoldsPosted(row, input) ==
    \A k \in {"title", "prepTime", "cookTime", "servings", "ingredients", "steps"} :
       row[k] = input[k]

\* C30 (as claimed): a POST of a recipe that matches a row inserts no row, and
\* when it reports 'Recipe updated successfully' a matching row holds what
\* was posted; no two rows ever share a non-empty url.  Violated: the UPDATE
\* selects by the recipeId of the request, which is a new one when the
\* request has none, and sets the url without looking at the other rows.
C30_PostUpdatesTheMatchingRow ==
    /\ [][(fn' = "createRecipe" /\ Matching(db.rows, arg') # {})
             => /\ Len(db'.rows) = Len(db.rows)
                /\ ret'.message = "Recipe updated successfully"
                      => \E i \in Matching(db.rows, arg') : HoldsPosted(db'.rows[i], arg')]_vars
    /\ [](db.rows # <<>> => NoDuplicate(db.rows, "url"))

-----------------------------------------------------------------------------
(* sanitizeText on texts with markup characters *)

\* longest text handed to sanitizeText, counted in fragments
MaxFragments == 3

\* fragments of markup, of escapes and of plain text
MarkupFragments == {"<", ">", "&", "\"", "'", "a", " ", "<script>", "</script>", "lt;"}

RECURSIVE FragmentTexts(_)
FragmentTexts(n) ==
    IF n = 0 THEN {""}
    ELSE LET shorter == FragmentTexts(n - 1)
         IN shorter \cup {t \o p : t \in shorter, p \in MarkupFragments}

InitSanitize ==
    /\ fn = "sanitizeText"
    /\ arg \in FragmentTexts(MaxFragments)
    /\ pc = "start"
    /\ html = NoHtml
    /\ ret = Undefined
    /\ net = <<>>
    /\ ocr = Undefined
    /\ localStorage = Undefined
    /\ db = Undefined

\* Validator.sanitizeText(text)
SanitizeText ==
    /\ fn = "sanitizeText"
    /\ pc = "start"
    /\ ret' = sanitizeText(Str(arg))
    /\ pc' = "sanitized"
    /\ UNCHANGED <<fn, arg, html, net, ocr, localStorage, db>>

\* RecipeValidator.validateRecipe on a recipe whose title, ingredient fields
\* and step are the text
ValidateText ==
    /\ fn = "sanitizeText"
    /\ pc = "start"
    /\ fn' = "validateRecipe"
    /\ ret' = validateRecipe([MinimumCandidate EXCEPT
                                 !.title = Str(arg),
                                 !.ingredients = Arr(<<Ing(arg, arg, arg)>>),
                                 !.steps = Arr(<<Str(arg)>>)])
    /\ pc' = "validated"
    /\ UNCHANGED <<arg, html, net, ocr, localStorage, db>>

NextSanitize == SanitizeText \/ ValidateText

SpecSanitize == InitSanitize /\ [][NextSanitize]_vars

\* the escapes that sanitizeText writes
Escapes == {"&lt;", "&gt;", "&amp;", "&quot;", "&#x27;"}

\* s holds none of the characters < > " ' and every & of s begins an escape
NoRawMarkup(s) ==
    \A i \in 1..Len(s) :
       /\ Char(s, i) \notin {"<", ">", "\"", "'"}
       /\ Char(s, i) = "&" => \E e \in Escapes : HasAt(s, i, e)

\* C27: what sanitizeText returns holds no raw < > " ' and no & other than
\* the first character of an escape, and so do the title, the ingredient
\* fields and the steps of a validated recipe
C27_SanitizedHasNoRawMarkup ==
    /\ pc = "sanitized" => NoRawMarkup(ret)
    /\ (pc = "validated" /\ ret.isValid) =>
          /\ NoRawMarkup(ret.validatedRecipe.title)
          /\ \A i \in DOMAIN ret.validatedRecipe.ingredients :
                /\ NoRawMarkup(ret.validatedRecipe.ingredients[i].amount)
                /\ NoRawMarkup(ret.validatedRecipe.ingredients[i].unit)
                /\ NoRawMarkup(ret.validatedRecipe.ingredients[i].item)
          /\ \A i \in DOMAIN ret.validatedRecipe.steps :
                NoRawMarkup(ret.validatedRecipe.steps[i])

\* a recipe whose text held a quote, an ampersand and an unclosed tag has
\* been validated
C27_MarkupValidated ==
    /\ pc = "validated"
    /\ ret.isValid
    /\ arg = "'&<"
    /\ ret.validatedRecipe.title = "&#x27;&amp;&lt;"
    /\ ret.validatedRecipe.steps = <<"&#x27;&amp;&lt;">>

-----------------------------------------------------------------------------
(* Recipes nested in the structured data of a document *)

\* a second recipe
ToastListed == [PancakesListed EXCEPT !.name = Str("Toast")]

\* a record that is no recipe
WebSite == Obj(("@type" :> Str("WebSite")))

\* the item list that holds the record as the item of its only entry
ItemListOf(record) == Obj([itemListElement |-> Arr(<<Obj([item |-> record])>>)])

\* the graph of a record after a record that is no recipe
GraphOf(record) == Obj(("@graph" :> Arr(<<WebSite, record>>)))

\* the contents of a script block: no recipe, a recipe at the root, in a
\* root array, in a @graph and in an item list, and the same nested in one
\* another
NestedContents ==
    { WebSite,
      Obj(PancakesListed),
      Obj(ToastListed),
      Arr(<<WebSite, Obj(PancakesListed)>>),
      GraphOf(Obj(PancakesListed)),
      ItemListOf(Obj(PancakesListed)),
      Arr(<<WebSite, GraphOf(Obj(PancakesListed))>>),
      Arr(<<ItemListOf(Obj(PancakesListed))>>),
      GraphOf(ItemListOf(Obj(PancakesListed))),
      ItemListOf(GraphOf(Obj(PancakesListed))) }

\* the documents of at most two script blocks
NestedPages ==
    { [ld |-> bs, body |-> "", ldLength |-> ShortScript] :
      bs \in {<<>>} \cup { <<b>> : b \in NestedContents }
                   \cup { <<b, c>> : b \in NestedContents, c \in NestedContents } }

InitNested ==
    /\ fn = "extractFromJsonLd"
    /\ arg \in Calls
    /\ html \in NestedPages
    /\ pc = "start"
    /\ ret = Undefined
    /\ net = <<>>
    /\ ocr = Undefined
    /\ localStorage = Undefined
    /\ db = Undefined

NextNested == ExtractFromJsonLd

SpecNested == InitNested /\ [][NextNested]_vars

RECURSIVE FirstRecipeOf(_), FirstRecipeAmong(_, _)
\* the Recipe-typed record that comes first in a block, depth first: the
\* root itself, the elements of an array, the elements of @graph, the items
\* of itemListElement entries; Null if there is none
FirstRecipeOf(node) ==
    IF IsArr(node) THEN FirstRecipeAmong(node.v, 1)
    ELSE IF node.t # "object" THEN Null
    ELSE IF isRecipeType(Get(node, "@type")) THEN node
    ELSE IF IsArr(Get(node, "@graph")) THEN FirstRecipeAmong(Get(node, "@graph").v, 1)
    ELSE IF IsArr(Get(node, "itemListElement"))
         THEN FirstRecipeAmong([i \in DOMAIN Get(node, "itemListElement").v |->
                                   Get(Get(node, "itemListElement").v[i], "item")], 1)
         ELSE Null

FirstRecipeAmong(nodes, i) ==
    IF i > Len(nodes) THEN Null
    ELSE IF FirstRecipeOf(nodes[i]) # Null THEN FirstRecipeOf(nodes[i])
    ELSE FirstRecipeAmong(nodes, i + 1)

\* the blocks of the page that hold a Recipe-typed record
RecipeBlocks == {i \in 1..Len(html.ld) : FirstRecipeOf(html.ld[i]) # Null}

\* C25 (as claimed): the projection of the Recipe-typed record that comes
\* first in document order, depth first within its block, is returned, and
\* null only if no block holds such a record.  Violated: findRecipeInJsonLd
\* looks one level below the root and no further.
C25_FirstRecipeInDocumentOrder ==
    (fn = "extractFromJsonLd" /\ pc = "done" /\ html \in NestedPages)
        => ret = IF RecipeBlocks = {} THEN Null
                 ELSE parseJsonLdRecipe(arg.variant,
                                        FirstRecipeOf(html.ld[Least(RecipeBlocks)]))

-----------------------------------------------------------------------------
(* Lists of recipeInstructions *)

\* the most elements of a recipeInstructions list
MaxElements == 2

\* a HowToSection whose nested list is held under the property k
SectionOf(k, elements) == Obj(("@type" :> Str("HowToSection")) @@ (k :> Arr(elements)))

\* the elements of a recipeInstructions list: plain strings, objects with a
\* text, name, description or instruction, and sections, one of them inside
\* another
InstructionElements ==
    { Str("Mix the batter."),
      Str("   "),
      HowToStep("text", "Cook until golden."),
      HowToStep("name", "Serve warm."),
      Obj(("@type" :> Str("ListItem")) @@ [name |-> Str("Rest the dough.")]),
      Obj([description |-> Str("Grease the pan.")]),
      Obj([instruction |-> Str("Flip once.")]),
      SectionOf("itemListElement", <<HowToStep("text", "Sift the flour."), Str("Add the eggs.")>>),
      SectionOf("steps", <<HowToStep("text", "Heat the pan.")>>),
      SectionOf("itemListElement",
                <<SectionOf("itemListElement", <<HowToStep("text", "Whip the cream.")>>)>>) }

RECURSIVE InstructionLists(_)
\* the lists of at most n elements
InstructionLists(n) ==
    IF n = 0 THEN {<<>>}
    ELSE LET shorter == InstructionLists(n - 1)
         IN shorter \cup {Append(list, e) : list \in shorter, e \in InstructionElements}

InitInstructions ==
    /\ fn = "parseInstructions"
    /\ arg \in [variant : Variants, instructions : {Arr(list) : list \in InstructionLists(MaxElements)}]
    /\ pc = "start"
    /\ html = NoHtml
    /\ ret = Undefined
    /\ net = <<>>
    /\ ocr = Undefined
    /\ localStorage = Undefined
    /\ db = Undefined

\* parseInstructions(instructions)
ParseInstructions ==
    /\ fn = "parseInstructions"
    /\ pc = "start"
    /\ ret' = parseInstructions(arg.variant, arg.instructions)
    /\ pc' = "done"
    /\ UNCHANGED <<fn, arg, html, net, ocr, localStorage, db>>

NextInstructions == ParseInstructions

SpecInstructions == InitInstructions /\ [][NextInstructions]_vars

\* the first of the text, name, description and instruction of an object
\* that is not empty, as a list of one step, or no step
FieldStep(inst) ==
    IF Truthy(Get(inst, "text")) THEN <<Get(inst, "text")>>
    ELSE IF Truthy(Get(inst, "name")) THEN <<Get(inst, "name")>>
    ELSE IF Truthy(Get(inst, "description")) THEN <<Get(inst, "description")>>
    ELSE IF Truthy(Get(inst, "instruction")) THEN <<Get(inst, "instruction")>>
    ELSE <<>>

\* the nested list of a section held under the property k
NestedList(inst, k) == IF IsArr(Get(inst, k)) THEN Get(inst, k).v ELSE <<>>

RECURSIVE FlattenedSteps(_), FlattenedFrom(_, _)
\* the source-order flattening of an element: a plain string that is not
\* blank, the field of an object, the flattening of a section's nested lists
FlattenedSteps(inst) ==
    IF IsStr(inst) THEN (IF Len(trim(inst.v)) > 0 THEN <<inst>> ELSE <<>>)
    ELSE IF Get(inst, "@type") = Str("HowToSection")
         THEN FlattenedFrom(NestedList(inst, "itemListElement") \o NestedList(inst, "steps"), 1)
         ELSE FieldStep(inst)

FlattenedFrom(elements, i) ==
    IF i > Len(elements) THEN <<>>
    ELSE FlattenedSteps(elements[i]) \o FlattenedFrom(elements, i + 1)

\* C26 (as claimed): the steps returned for a recipeInstructions list are the
\* source-order flattening of its elements, with no element dropped.
\* Violated: a name counts only on an object typed HowToStep, and the
\* elements of a section are not looked into for sections of their own.
C26_StepsAreTheFlattening ==
    (fn = "parseInstructions" /\ pc = "done")
        => ret = Arr(FlattenedFrom(arg.instructions.v, 1))

-----------------------------------------------------------------------------
(* The cascades of extractIngredientsFromHtml and extractStepsFromHtml *)

\* the most sections a page is put together from
MaxSections == 2

\* sections of pages: items of two pattern families, a list container, a
\* section under a heading with list items and one with paragraphs, a
\* numbered paragraph, and fragments that are too short or boilerplate
IngredientSections ==
    { "<li class=\"ingredient\">2 cups flour</li><li class=\"ingredient\">1 egg</li>"
         \o "<li class=\"ingredient\">ok</li><li class=\"ingredient\">1 cup milk</li>",
      "<span class=\"ingredient\">2 tbsp butter</span>",
      "<ul id=\"ingredients\"><li>1 tsp salt</li><li>Print</li></ul>",
      "<h2>Ingredients</h2><ul><li>3 eggs</li></ul>",
      "<h2>Ingredients</h2><p>12 comments</p><p>1 cup sugar</p>" }

StepSections ==
    { "<li class=\"instruction\">Mix the flour and the eggs.</li>"
         \o "<li class=\"instruction\">Bake until golden brown.</li>",
      "<div class=\"step\">Whisk the milk into it.</div>",
      "<div class=\"step\">Stir it well.</div>",
      "<ol id=\"steps\"><li>Melt the butter slowly.</li></ol>",
      "<h3>Method</h3><p>Cook each side until it is golden brown.</p>",
      "<h3>Method</h3><ol><li>Rest the batter briefly.</li></ol>",
      "<p>Step 1: Heat the pan on medium.</p>" }

RECURSIVE SectionBodies(_)
\* the bodies of up to n sections
SectionBodies(n) ==
    IF n = 0 THEN {""}
    ELSE SectionBodies(n - 1)
         \cup { body \o section : body \in SectionBodies(n - 1),
                                  section \in IngredientSections \cup StepSections }

InitCascade ==
    /\ fn \in {"extractIngredientsFromHtml", "extractStepsFromHtml"}
    /\ arg \in [variant : Variants]
    /\ html \in { [ld |-> <<>>, body |-> body, ldLength |-> 0] : body \in SectionBodies(MaxSections) }
    /\ pc = "start"
    /\ ret = Undefined
    /\ net = Undefined
    /\ ocr = Undefined
    /\ localStorage = Undefined
    /\ db = Undefined

\* extractIngredientsFromHtml(htmlContent, recipe) on a recipe without
\* ingredients: recipe.ingredients afterwards
ExtractIngredientsFromHtml ==
    /\ fn = "extractIngredientsFromHtml"
    /\ pc = "start"
    /\ ret' = Arr(extractIngredientsFromHtml(arg.variant, html.body, toLowerCase(html.body), <<>>))
    /\ pc' = "done"
    /\ UNCHANGED <<fn, arg, html, net, ocr, localStorage, db>>

\* extractStepsFromHtml(htmlContent, recipe) on a recipe without steps:
\* recipe.steps afterwards
ExtractStepsFromHtml ==
    /\ fn = "extractStepsFromHtml"
    /\ pc = "start"
    /\ ret' = Arr(extractStepsFromHtml(arg.variant, html.body, toLowerCase(html.body), <<>>))
    /\ pc' = "done"
    /\ UNCHANGED <<fn, arg, html, net, ocr, localStorage, db>>

NextCascade == ExtractIngredientsFromHtml \/ ExtractStepsFromHtml

SpecCascade == InitCascade /\ [][NextCascade]_vars

\* what the pattern families yield, tried in list order until more than
\* limit are held
FamilyTexts(htmlContent, low, patterns, longerThan, limit) ==
    Gather([k \in 1..Len(patterns) |->
              KeptTexts(MatchAllFrom(htmlContent, low, patterns[k], 1), "current", longerThan)],
           <<>>, limit)

\* what the list containers yield, list by list until more than limit are
\* held
ContainerTexts(htmlContent, low, listPatterns, longerThan, limit) ==
    Gather(Yields(ListGroups(htmlContent, low, listPatterns),
                  LAMBDA list : KeptTexts(list, "current", longerThan)),
           <<>>, limit)

\* listPatterns of extractIngredientsFromLists and of extractStepsFromLists
ingredientListPatterns ==
    << ClassPattern("ul", "ingredient"),
       Pattern("<ul", {"id=\""}, {"ingredient"}, "</ul>"),
       [ClassPattern("div", "ingredient") EXCEPT !.inner = "<ul", !.close = "</ul>"] >>

stepListPatterns ==
    LET words == {"instruction", "direction", "method", "step"}
    IN << Pattern("<ol", {"class=\""}, words \cup {"recipe"}, "</ol>"),
          Pattern("<ol", {"id=\""}, words, "</ol>"),
          Pattern("<ul", {"class=\""}, words, "</ul>"),
          [Pattern("<div", {"class=\""}, words \ {"step"}, "</ol>") EXCEPT !.inner = "<ol"] >>

\* the cascade of the ingredients in the order claimed: the families, the
\* list containers if nothing is held, the sections under a heading if
\* still nothing is held
CascadeIngredients(htmlContent, low) ==
    OrIfNone(IngredientsOf(FamilyTexts(htmlContent, low, ingredientPatterns("current"), 2, 2)),
    OrIfNone(IngredientsOf(ContainerTexts(htmlContent, low, ingredientListPatterns, 2, 2)),
             Gather(BlogIngredientGroups(htmlContent, low), <<>>, 2)))

\* the cascade of the steps in the order claimed: the families, the list
\* containers, the sections under a heading, and last the numbered paragraphs
CascadeSteps(htmlContent, low) ==
    OrIfNone(StepsOf(FamilyTexts(htmlContent, low, stepPatterns("current"), 15, 1)),
    OrIfNone(StepsOf(ContainerTexts(htmlContent, low, stepListPatterns, 15, 1)),
    OrIfNone(Gather(BlogStepGroups(htmlContent, low), <<>>, 1),
             StepsOf(KeptTexts(NumberedParagraphs(htmlContent, low), "current", 15)))))

\* the texts of the fragments of the sections
SectionTexts ==
    {"2 cups flour", "1 egg", "ok", "1 cup milk", "2 tbsp butter", "1 tsp salt", "Print",
     "3 eggs", "12 comments", "1 cup sugar",
     "Mix the flour and the eggs.", "Bake until golden brown.", "Whisk the milk into it.",
     "Stir it well.", "Melt the butter slowly.", "Cook each side until it is golden brown.",
     "Rest the batter briefly.", "Heat the pan on medium.", "Step 1: Heat the pan on medium."}

\* the fragments that may be accepted: longer than longerThan and not
\* boilerplate
Acceptable(longerThan) ==
    {t \in SectionTexts : Len(t) > longerThan /\ ~isBoilerplateText(t)}

\* C24 (as claimed): the ingredients and the steps returned are those of the
\* cascades in the order families, list containers, sections under a
\* heading and, for steps, numbered paragraphs last, each stage run only if
\* nothing is held and the families stopping once more than 2 ingredients
\* (more than 1 step) are held; every ingredient returned comes from a
\* fragment longer than 2 characters that is not boilerplate, every step from
\* one longer than 15 characters that is not boilerplate.  Violated: the
\* numbered paragraphs are scanned before the sections under a heading, and
\* the paragraphs of an ingredients section are not tested for boilerplate.
C24_CascadesInTheClaimedOrder ==
    /\ (fn = "extractIngredientsFromHtml" /\ pc = "done")
          => /\ ret.v = CascadeIngredients(html.body, toLowerCase(html.body))
             /\ \A i \in DOMAIN ret.v :
                   \E t \in Acceptable(2) : ret.v[i] = parseIngredientText(t)
    /\ (fn = "extractStepsFromHtml" /\ pc = "done")
          => /\ ret.v = CascadeSteps(html.body, toLowerCase(html.body))
             /\ \A i \in DOMAIN ret.v : \E t \in Acceptable(15) : ret.v[i] = Str(t)

====
